---- MODULE Spec2Model ----
(***************************************************************************)
(* Model of the NCAA dashboard's projection engine and of the per-event    *)
(* mapping done by fetchScores.                                            *)
(*                                                                         *)
(* Sources:                                                                *)
(*   src/src/app/page.tsx   calculateRealProjection, fetchScores (l.1-404) *)
(*                          calculateRealAIProjection, fetchScores         *)
(*                          (l.405-845, an older copy of the page)         *)
(*   src/unnamed/part_000   smartAIProjection, getTeamPaceMultiplier,      *)
(*                          fetchScores (grouped dashboard)                *)
(*                                                                         *)
(* JavaScript numbers are modelled as exact rationals plus the value NaN.  *)
(* The rationals are unreduced fractions of arbitrary-precision integers,  *)
(* so that no intermediate product of the adjustment chain is truncated.   *)
(* IEEE-754 rounding error is not modelled.                                *)
(***************************************************************************)
EXTENDS Integers, Sequences, FiniteSets, TLC

(***************************************************************************)
(* Arbitrary-precision naturals: little-endian digit sequences in base     *)
(* 10^4, without leading (high) zero digits; zero is the empty sequence.   *)
(***************************************************************************)
Base == 100 * 100

RECURSIVE Norm(_)
Norm(x) ==
  IF x = <<>> THEN <<>>
  ELSE IF x[Len(x)] = 0 THEN Norm(SubSeq(x, 1, Len(x) - 1))
  ELSE x

RECURSIVE NatToBig(_)
NatToBig(n) ==
  IF n = 0 THEN <<>> ELSE <<n % Base>> \o NatToBig(n \div Base)

RECURSIVE BigToNat(_)
BigToNat(x) ==
  IF x = <<>> THEN 0 ELSE Head(x) + Base * BigToNat(Tail(x))

RECURSIVE BigAddC(_, _, _)
BigAddC(x, y, c) ==
  IF x = <<>> /\ y = <<>> THEN (IF c = 0 THEN <<>> ELSE <<c>>)
  ELSE LET a == IF x = <<>> THEN 0 ELSE Head(x)
           b == IF y = <<>> THEN 0 ELSE Head(y)
           s == a + b + c
       IN  <<s % Base>> \o BigAddC(IF x = <<>> THEN <<>> ELSE Tail(x),
                                   IF y = <<>> THEN <<>> ELSE Tail(y),
                                   s \div Base)

BigAdd(x, y) == BigAddC(x, y, 0)

\* x - y for x >= y
RECURSIVE BigSubB(_, _, _)
BigSubB(x, y, b) ==
  IF x = <<>> THEN <<>>
  ELSE LET sub == (IF y = <<>> THEN 0 ELSE Head(y)) + b
           d   == Head(x) - sub
       IN  IF d >= 0
           THEN <<d>> \o BigSubB(Tail(x), IF y = <<>> THEN <<>> ELSE Tail(y), 0)
           ELSE <<d + Base>> \o BigSubB(Tail(x), IF y = <<>> THEN <<>> ELSE Tail(y), 1)

BigSub(x, y) == Norm(BigSubB(x, y, 0))

\* -1, 0, 1 as x < y, x = y, x > y
RECURSIVE BigCmpAt(_, _, _)
BigCmpAt(x, y, i) ==
  IF i = 0 THEN 0
  ELSE IF x[i] < y[i] THEN -1
  ELSE IF x[i] > y[i] THEN 1
  ELSE BigCmpAt(x, y, i - 1)

BigCmp(x, y) ==
  IF Len(x) < Len(y) THEN -1
  ELSE IF Len(x) > Len(y) THEN 1
  ELSE BigCmpAt(x, y, Len(x))

RECURSIVE MulDigitC(_, _, _)
MulDigitC(x, k, c) ==
  IF x = <<>> THEN (IF c = 0 THEN <<>> ELSE <<c>>)
  ELSE LET p == Head(x) * k + c
       IN  <<p % Base>> \o MulDigitC(Tail(x), k, p \div Base)

MulDigit(x, k) == IF k = 0 THEN <<>> ELSE MulDigitC(x, k, 0)

\* p + Base * rest
ShiftAdd(p, rest) == BigAdd(p, IF rest = <<>> THEN <<>> ELSE <<0>> \o rest)

RECURSIVE BigMul(_, _)
BigMul(x, y) ==
  IF x = <<>> \/ y = <<>> THEN <<>>
  ELSE ShiftAdd(MulDigit(x, Head(y)), BigMul(x, Tail(y)))

\* floor(n / d) as an Int, d > 0 (the quotient must fit an Int): the least power
\* of two h with n < d * h, then a bisection of 0..h
RECURSIVE QuoHi(_, _, _)
QuoHi(n, d, h) ==
  IF BigCmp(n, BigMul(d, NatToBig(h))) < 0 THEN h ELSE QuoHi(n, d, 2 * h)

RECURSIVE QuoBetween(_, _, _, _)
QuoBetween(n, d, lo, hi) ==
  IF hi - lo <= 1 THEN lo
  ELSE LET mid == (lo + hi) \div 2
       IN  IF BigCmp(BigMul(d, NatToBig(mid)), n) <= 0
           THEN QuoBetween(n, d, mid, hi)
           ELSE QuoBetween(n, d, lo, mid)

BigQuo(n, d) ==
  IF Len(n) <= 2 /\ Len(d) <= 2 THEN BigToNat(n) \div BigToNat(d)
  ELSE QuoBetween(n, d, 0, QuoHi(n, d, 1))

(***************************************************************************)
(* Rationals: [neg, num, den] with num, den big naturals, den > 0.         *)
(***************************************************************************)
IAbs(i) == IF i < 0 THEN -i ELSE i

RFrac(a, b) == [neg |-> a < 0, num |-> NatToBig(IAbs(a)), den |-> NatToBig(b)]
RInt(a) == RFrac(a, 1)

RIsZero(x) == x.num = <<>>
RIsNeg(x) == x.neg /\ x.num # <<>>

RNeg(x) == [x EXCEPT !.neg = ~x.neg]
RAbs(x) == [x EXCEPT !.neg = FALSE]

RMul(x, y) ==
  [neg |-> x.neg # y.neg, num |-> BigMul(x.num, y.num), den |-> BigMul(x.den, y.den)]

\* x / y for y # 0
RDiv(x, y) ==
  [neg |-> x.neg # y.neg, num |-> BigMul(x.num, y.den), den |-> BigMul(x.den, y.num)]

\* a/d + b/d, the terms carrying the signs xneg and yneg
RAddOver(xneg, yneg, a, b, d) ==
  IF xneg = yneg THEN [neg |-> xneg, num |-> BigAdd(a, b), den |-> d]
  ELSE IF BigCmp(a, b) >= 0 THEN [neg |-> xneg, num |-> BigSub(a, b), den |-> d]
  ELSE [neg |-> yneg, num |-> BigSub(b, a), den |-> d]

RAdd(x, y) ==
  RAddOver(x.neg, y.neg, BigMul(x.num, y.den), BigMul(y.num, x.den), BigMul(x.den, y.den))

RSub(x, y) == RAdd(x, RNeg(y))

\* -1, 0, 1 as x < y, x = y, x > y
RCmp(x, y) ==
  IF RIsNeg(x) /\ ~RIsNeg(y) THEN -1
  ELSE IF ~RIsNeg(x) /\ RIsNeg(y) THEN 1
  ELSE IF RIsNeg(x) THEN BigCmp(BigMul(y.num, x.den), BigMul(x.num, y.den))
  ELSE BigCmp(BigMul(x.num, y.den), BigMul(y.num, x.den))

RLt(x, y) == RCmp(x, y) < 0
RLe(x, y) == RCmp(x, y) <= 0
REq(x, y) == RCmp(x, y) = 0

\* floor(x) as an Int
RFloor(x) ==
  IF ~RIsNeg(x) THEN BigQuo(x.num, x.den)
  ELSE -BigQuo(BigSub(BigAdd(x.num, x.den), <<1>>), x.den)

RIsInt(x) == REq(x, RInt(RFloor(x)))

(***************************************************************************)
(* JavaScript numbers: a rational or NaN.  [nan, neg, num, den].           *)
(* Infinity is not modelled: every division of the engine has a constant   *)
(* divisor or is guarded by minutesPlayed > 0.                             *)
(***************************************************************************)
NaN == [nan |-> TRUE, neg |-> FALSE, num |-> <<>>, den |-> <<1>>]

RECURSIVE Gcd(_, _)
Gcd(a, b) == IF b = 0 THEN a ELSE Gcd(b, a % b)

\* a fraction whose terms both have at most two digits is put in lowest terms;
\* longer ones are kept as they are (the value is the same either way)
Lowest(neg, n, d, g) ==
  [nan |-> FALSE, neg |-> neg /\ n # 0, num |-> NatToBig(n \div g), den |-> NatToBig(d \div g)]

JNum(r) ==
  IF Len(r.num) <= 2 /\ Len(r.den) <= 2
  THEN Lowest(r.neg, BigToNat(r.num), BigToNat(r.den), Gcd(BigToNat(r.num), BigToNat(r.den)))
  ELSE [nan |-> FALSE, neg |-> r.neg /\ r.num # <<>>, num |-> r.num, den |-> r.den]
JInt(i) == JNum(RInt(i))
JFrac(a, b) == JNum(RFrac(a, b))

JAdd(x, y) == IF x.nan \/ y.nan THEN NaN ELSE JNum(RAdd(x, y))
JSub(x, y) == IF x.nan \/ y.nan THEN NaN ELSE JNum(RSub(x, y))
JMul(x, y) == IF x.nan \/ y.nan THEN NaN ELSE JNum(RMul(x, y))
\* x / y; the engine only divides by non-zero values or NaN
JDiv(x, y) == IF x.nan \/ y.nan THEN NaN ELSE JNum(RDiv(x, y))

\* comparisons: every comparison with NaN is false
JLt(x, y) == ~x.nan /\ ~y.nan /\ RLt(x, y)
JLe(x, y) == ~x.nan /\ ~y.nan /\ RLe(x, y)
JGt(x, y) == JLt(y, x)
JGe(x, y) == JLe(y, x)
JEq(x, y) == ~x.nan /\ ~y.nan /\ REq(x, y)

\* Math.abs, Math.min, Math.max, Math.round (round half up: floor(x + 1/2))
MathAbs(x) == IF x.nan THEN NaN ELSE JNum(RAbs(x))
MathMin(x, y) == IF x.nan \/ y.nan THEN NaN ELSE IF RLe(x, y) THEN x ELSE y
MathMax(x, y) == IF x.nan \/ y.nan THEN NaN ELSE IF RLe(y, x) THEN x ELSE y
MathRound(x) == IF x.nan THEN NaN ELSE JInt(RFloor(RAdd(x, RFrac(1, 2))))

\* x || 0 on a number: NaN and 0 are falsy
OrZero(x) == IF x.nan \/ RIsZero(x) THEN JInt(0) ELSE x

JIsInt(x) == ~x.nan /\ RIsInt(x)
\* the Int value of an integral number
JToInt(x) == RFloor(x)

(***************************************************************************)
(* Strings are sequences of one-character strings.                         *)
(***************************************************************************)
DigitChars == <<"0", "1", "2", "3", "4", "5", "6", "7", "8", "9">>
IsDigit(c) == \E i \in 1..10 : DigitChars[i] = c
DigitVal(c) == (CHOOSE i \in 1..10 : DigitChars[i] = c) - 1
IsSpace(c) == c = " "

\* String.prototype.includes for a one-character needle
Includes(s, c) == \E i \in 1..Len(s) : s[i] = c

\* index of the first occurrence of sep in s, 0 if none
Least(hits) == IF hits = {} THEN 0 ELSE CHOOSE i \in hits : \A j \in hits : i <= j

IndexOf(s, sep) ==
  Least({i \in 1..(Len(s) - Len(sep) + 1) : SubSeq(s, i, i + Len(sep) - 1) = sep})

\* String.prototype.split(sep): the sequence of parts
RECURSIVE SplitAt(_, _, _)
SplitAt(s, sep, i) ==
  IF i = 0 THEN <<s>>
  ELSE <<SubSeq(s, 1, i - 1)>>
       \o SplitAt(SubSeq(s, i + Len(sep), Len(s)), sep,
                  IndexOf(SubSeq(s, i + Len(sep), Len(s)), sep))

Split(s, sep) == SplitAt(s, sep, IndexOf(s, sep))

RECURSIVE TrimLeft(_)
TrimLeft(s) == IF s # <<>> /\ IsSpace(Head(s)) THEN TrimLeft(Tail(s)) ELSE s

RECURSIVE TrimRight(_)
TrimRight(s) ==
  IF s # <<>> /\ IsSpace(s[Len(s)]) THEN TrimRight(SubSeq(s, 1, Len(s) - 1)) ELSE s

\* value of a sequence of digit characters
RECURSIVE DigitsValue(_)
DigitsValue(s) ==
  IF s = <<>> THEN 0 ELSE 10 * DigitsValue(SubSeq(s, 1, Len(s) - 1)) + DigitVal(s[Len(s)])

\* longest prefix of digit characters
RECURSIVE DigitPrefix(_)
DigitPrefix(s) ==
  IF s # <<>> /\ IsDigit(Head(s)) THEN <<Head(s)>> \o DigitPrefix(Tail(s)) ELSE <<>>

IsSign(c) == c = "-" \/ c = "+"

\* Number(s): whitespace is trimmed, the empty string is 0, an optionally
\* signed run of digits is its value, anything else is NaN.  (Fractions, exponents
\* and radix prefixes do not occur in the clock texts considered.)
Unsigned(t) == IF t # <<>> /\ IsSign(Head(t)) THEN Tail(t) ELSE t

NumberOf(t, body) ==
  IF t = <<>> THEN JInt(0)
  ELSE IF body # <<>> /\ \A i \in 1..Len(body) : IsDigit(body[i])
  THEN JInt(IF Head(t) = "-" THEN -DigitsValue(body) ELSE DigitsValue(body))
  ELSE NaN

ToNumber(s) == NumberOf(TrimRight(TrimLeft(s)), Unsigned(TrimRight(TrimLeft(s))))

\* parseInt(s): leading whitespace is skipped, then an optional sign and the
\* longest run of digits; NaN when there is no digit.
IntOf(t, ds) ==
  IF ds = <<>> THEN NaN
  ELSE JInt(IF Head(t) = "-" THEN -DigitsValue(ds) ELSE DigitsValue(ds))

ParseInt(s) == IntOf(TrimLeft(s), DigitPrefix(Unsigned(TrimLeft(s))))

(***************************************************************************)
(* Arguments of the engine.  A clock argument is [present, text]: present  *)
(* is FALSE for undefined/null; a falsy clock is an absent or empty one.   *)
(***************************************************************************)
Truthy(clock) == clock.present /\ clock.text # <<>>

SepDash == <<" ", "-", " ">>
SepColon == <<":">>
SepSpace == <<" ">>

\* a time state of the parser, and the engine's result with the path taken:
\* out is the returned record, ts the parsed time state, fallback whether the
\* early return was taken, divided whether currentTotal / minutesPlayed was
\* evaluated.
TimeState(played, remaining) == [minutesPlayed |-> played, minutesRemaining |-> remaining]

(***************************************************************************)
(* calculateRealProjection, src/src/app/page.tsx:25-133                    *)
(***************************************************************************)
\* STEP 1, lines 36-62
RP_ParseClock(clockDisplayValue, period) ==
  LET \* lines of the branch on period
      Elapsed(timeLeftInPeriod) ==
        IF period = 1
        THEN TimeState(JSub(JInt(20), timeLeftInPeriod), JAdd(timeLeftInPeriod, JInt(20)))
        ELSE IF period = 2
        THEN TimeState(JAdd(JInt(20), JSub(JInt(20), timeLeftInPeriod)), timeLeftInPeriod)
        ELSE TimeState(JAdd(JAdd(JInt(40), JInt((period - 2) * 5)),
                            JSub(JInt(5), timeLeftInPeriod)),
                       timeLeftInPeriod)
      TimeLeft(parts) ==
        LET mins == ToNumber(parts[1])
            \* a missing second part destructures to undefined; undefined || 0 is 0
            secs == IF Len(parts) >= 2 THEN ToNumber(parts[2]) ELSE NaN
        IN  JAdd(mins, JDiv(OrZero(secs), JInt(60)))
  IN  IF Truthy(clockDisplayValue) /\ Includes(clockDisplayValue.text, ":")
      THEN LET timePart == Split(clockDisplayValue.text, SepDash)[1]
           IN  Elapsed(TimeLeft(Split(timePart, SepColon)))
      ELSE TimeState(JInt(IF period = 1 THEN 10 ELSE 30), JInt(IF period = 1 THEN 30 ELSE 10))

\* a guard that looks at minutesPlayed only
RP_DegeneratePlayedOnly(ts) == JLe(ts.minutesPlayed, JInt(0))

\* line 65: the guard of the early return
RP_Degenerate(ts) ==
  JLe(ts.minutesPlayed, JInt(0)) \/ JLe(ts.minutesRemaining, JInt(0))

\* lines 66-73
RP_Fallback(currentTotal, ts) ==
  [projectedTotal   |-> JInt(currentTotal + 30),
   pace             |-> JInt(70),
   confidence       |-> JInt(50),
   algorithm        |-> "Fallback",
   minutesRemaining |-> ts.minutesRemaining,
   projectedPoints  |-> JInt(30)]

\* STEP 2, line 77
\* the pace with the second-half slowdown already applied to it
RP_CurrentPaceSlowed(currentTotal, ts) ==
  IF JGe(ts.minutesPlayed, JInt(20))
  THEN JMul(JMul(JDiv(JInt(currentTotal), ts.minutesPlayed), JInt(40)), JFrac(94, 100))
  ELSE JMul(JDiv(JInt(currentTotal), ts.minutesPlayed), JInt(40))

\* points per minute, not scaled to a 40-minute game
RP_CurrentPacePerMinute(currentTotal, ts) ==
  JDiv(JInt(currentTotal), ts.minutesPlayed)

RP_CurrentPace(currentTotal, ts) ==
  JMul(JDiv(JInt(currentTotal), ts.minutesPlayed), JInt(40))

\* one statement that updates adjustedPace: `adjustedPace *= by`, or for
\* the step named "regression" the blend
\* `adjustedPace = adjustedPace * (1 - by) + 70 * by`
Step(name, by) == [name |-> name, by |-> by]

When(condition, step) == IF condition THEN <<step>> ELSE <<>>

ApplyStep(adjustedPace, step) ==
  IF step.name = "regression"
  THEN JAdd(JMul(adjustedPace, JSub(JInt(1), step.by)), JMul(JInt(70), step.by))
  ELSE JMul(adjustedPace, step.by)

\* the statements of a list executed in order
RECURSIVE ApplyAll(_, _)
ApplyAll(adjustedPace, steps) ==
  IF steps = <<>> THEN adjustedPace
  ELSE ApplyAll(ApplyStep(adjustedPace, Head(steps)), Tail(steps))

\* the score-situation tests as independent ifs, not an else-if chain
RP_CorrectionsIndependent(scoreDiff, period, ts) ==
  When(period >= 2, Step("period", JFrac(94, 100)))
  \o When(scoreDiff > 20, Step("severe blowout", JFrac(85, 100)))
  \o When(scoreDiff > 12, Step("moderate blowout", JFrac(92, 100)))
  \o When(scoreDiff <= 3 /\ JLt(ts.minutesRemaining, JInt(5)), Step("close game", JFrac(115, 100)))
  \o When(JLt(ts.minutesRemaining, JInt(2)) /\ scoreDiff > 4 /\ scoreDiff < 15,
          Step("fouling", JFrac(125, 100)))
  \o <<Step("regression", MathMin(JFrac(3, 10), JDiv(ts.minutesPlayed, JInt(40))))>>

\* STEP 3, lines 80-105: the statements that update adjustedPace in a call,
\* in the order in which they are executed
RP_Corrections(scoreDiff, period, ts) ==
  When(period >= 2, Step("period", JFrac(94, 100)))
  \o (IF scoreDiff > 20 THEN <<Step("severe blowout", JFrac(85, 100))>>
      ELSE IF scoreDiff > 12 THEN <<Step("moderate blowout", JFrac(92, 100))>>
      ELSE IF scoreDiff <= 3 /\ JLt(ts.minutesRemaining, JInt(5))
      THEN <<Step("close game", JFrac(115, 100))>>
      ELSE <<>>)
  \o When(JLt(ts.minutesRemaining, JInt(2)) /\ scoreDiff > 4 /\ scoreDiff < 15,
          Step("fouling", JFrac(125, 100)))
  \o <<Step("regression", MathMin(JFrac(3, 10), JDiv(ts.minutesPlayed, JInt(40))))>>

\* STEP 3, lines 80-105
RP_AdjustedPace(currentPace, scoreDiff, period, ts) ==
  ApplyAll(currentPace, RP_Corrections(scoreDiff, period, ts))

\* STEP 4, line 108
RP_RemainingPoints(adjustedPace, ts) ==
  JMul(JDiv(adjustedPace, JInt(40)), ts.minutesRemaining)

\* STEP 6, lines 114-123
RP_Confidence(currentPace, scoreDiff, ts) ==
  LET gameProgress   == JDiv(ts.minutesPlayed, JAdd(ts.minutesPlayed, ts.minutesRemaining))
      baseConfidence == JAdd(JInt(55), JMul(gameProgress, JInt(35)))
      b1 == IF JLt(MathAbs(JSub(currentPace, JInt(70))), JInt(15)) THEN 8 ELSE 0
      b2 == IF JGt(ts.minutesPlayed, JInt(25)) THEN 7 ELSE 0
      b3 == IF scoreDiff < 25 THEN 5 ELSE 0
      confidenceBonus == JInt(b1 + b2 + b3)
  IN  MathMin(JInt(95), MathRound(JAdd(baseConfidence, confidenceBonus)))

\* the projection as computed, without the floor of line 126
RP_FloorNone(currentTotal, projectedTotal) == projectedTotal

\* line 126: the floor on the returned projection
RP_Floor(currentTotal, projectedTotal) ==
  MathMax(JInt(currentTotal + 5), projectedTotal)

\* line 130
RoundTenth(x) == JDiv(MathRound(JMul(x, JInt(10))), JInt(10))

calculateRealProjection(homeScore, awayScore, clockDisplayValue, period, homeTeam, awayTeam) ==
  LET currentTotal == homeScore + awayScore
      scoreDiff    == IAbs(homeScore - awayScore)
      Return(ts, currentPace, projectedRemainingPoints) ==
        LET projectedTotal == MathRound(JAdd(JInt(currentTotal), projectedRemainingPoints))
        IN  [out |-> [projectedTotal   |-> RP_Floor(currentTotal, projectedTotal),
                      pace             |-> MathRound(currentPace),
                      confidence       |-> RP_Confidence(currentPace, scoreDiff, ts),
                      algorithm        |-> "Time-Based AI",
                      minutesRemaining |-> RoundTenth(ts.minutesRemaining),
                      projectedPoints  |-> MathRound(projectedRemainingPoints)],
             ts |-> ts, fallback |-> FALSE, divided |-> TRUE]
      Project(ts, currentPace) ==
        LET adjustedPace == RP_AdjustedPace(currentPace, scoreDiff, period, ts)
        IN  Return(ts, currentPace, RP_RemainingPoints(adjustedPace, ts))
      Engine(ts) ==
        IF RP_Degenerate(ts)
        THEN [out |-> RP_Fallback(currentTotal, ts), ts |-> ts,
              fallback |-> TRUE, divided |-> FALSE]
        ELSE Project(ts, RP_CurrentPace(currentTotal, ts))
  IN  Engine(RP_ParseClock(clockDisplayValue, period))

(***************************************************************************)
(* getTeamPaceMultiplier, src/unnamed/part_000:368-396                     *)
(***************************************************************************)
\* lines 369-380, the factors in hundredths
teamFactors ==
  <<
     [key |-> <<"D", "u", "k", "e">>, factor |-> 108],
     [key |-> <<"N", "o", "r", "t", "h", " ", "C", "a", "r", "o", "l", "i", "n", "a">>, factor |-> 105],
     [key |-> <<"G", "o", "n", "z", "a", "g", "a">>, factor |-> 104],
     [key |-> <<"A", "u", "b", "u", "r", "n">>, factor |-> 107],
     [key |-> <<"H", "o", "u", "s", "t", "o", "n">>, factor |-> 103],
     [key |-> <<"A", "r", "i", "z", "o", "n", "a">>, factor |-> 106],
     [key |-> <<"U", "C", "L", "A">>, factor |-> 102],
     [key |-> <<"K", "a", "n", "s", "a", "s">>, factor |-> 104],
     [key |-> <<"V", "i", "r", "g", "i", "n", "i", "a">>, factor |-> 88],
     [key |-> <<"W", "i", "s", "c", "o", "n", "s", "i", "n">>, factor |-> 91],
     [key |-> <<"M", "i", "c", "h", "i", "g", "a", "n", " ", "S", "t", "a", "t", "e">>, factor |-> 94],
     [key |-> <<"P", "u", "r", "d", "u", "e">>, factor |-> 96],
     [key |-> <<"K", "e", "n", "t", "u", "c", "k", "y">>, factor |-> 92],
     [key |-> <<"L", "o", "u", "i", "s", "v", "i", "l", "l", "e">>, factor |-> 89],
     [key |-> <<"T", "e", "n", "n", "e", "s", "s", "e", "e">>, factor |-> 93],
     [key |-> <<"T", "e", "x", "a", "s", " ", "T", "e", "c", "h">>, factor |-> 90],
     [key |-> <<"V", "i", "l", "l", "a", "n", "o", "v", "a">>, factor |-> 98],
     [key |-> <<"M", "i", "c", "h", "i", "g", "a", "n">>, factor |-> 99],
     [key |-> <<"O", "h", "i", "o", " ", "S", "t", "a", "t", "e">>, factor |-> 101],
     [key |-> <<"I", "l", "l", "i", "n", "o", "i", "s">>, factor |-> 100]
  >>

\* teamFactors[word] as the code reads it: the factor in hundredths, 0 when the
\* key is not in the table (undefined; both are falsy).  Properties inherited
\* from Object.prototype are not modelled.
FactorAt(i) == IF i = 0 THEN 0 ELSE teamFactors[i].factor

TeamFactorOf(word) ==
  FactorAt(Least({i \in 1..Len(teamFactors) : teamFactors[i].key = word}))

Unknown == <<"U", "n", "k", "n", "o", "w", "n">>

\* lines 383-386: the first word of the name that is a key of the table
FirstKey(words, i) == IF i = 0 THEN Unknown ELSE words[i]

KeyAmong(words) ==
  FirstKey(words, Least({i \in 1..Len(words) : TeamFactorOf(words[i]) # 0}))

getTeamKey(fullName) == KeyAmong(Split(fullName, SepSpace))

\* lines 388-395
\* teamFactors[key] || 1.0
FactorOrOne(f) == IF f = 0 THEN JInt(1) ELSE JFrac(f, 100)

getTeamPaceMultiplier(homeTeam, awayTeam) ==
  LET homeKey == getTeamKey(homeTeam)
      awayKey == getTeamKey(awayTeam)
      homeFactor == FactorOrOne(TeamFactorOf(homeKey))
      awayFactor == FactorOrOne(TeamFactorOf(awayKey))
  IN  JDiv(JAdd(JMul(homeFactor, JFrac(102, 100)), awayFactor), JInt(2))

(***************************************************************************)
(* smartAIProjection, src/unnamed/part_000:261-365                         *)
(***************************************************************************)
\* lines 272-293
SA_ParseClock(clockDisplayValue, period) ==
  LET \* lines of the branch on period
      Elapsed(timeLeftInPeriod) ==
        IF period = 1
        THEN TimeState(JSub(JInt(20), timeLeftInPeriod), JAdd(timeLeftInPeriod, JInt(20)))
        ELSE IF period = 2
        THEN TimeState(JAdd(JInt(20), JSub(JInt(20), timeLeftInPeriod)), timeLeftInPeriod)
        ELSE TimeState(JAdd(JAdd(JInt(40), JInt((period - 2) * 5)),
                            JSub(JInt(5), timeLeftInPeriod)),
                       timeLeftInPeriod)
      TimeLeft(parts) ==
        LET mins == ToNumber(parts[1])
            \* a missing second part destructures to undefined; undefined || 0 is 0
            secs == IF Len(parts) >= 2 THEN ToNumber(parts[2]) ELSE NaN
        IN  JAdd(mins, JDiv(OrZero(secs), JInt(60)))
  IN  IF Truthy(clockDisplayValue) /\ Includes(clockDisplayValue.text, ":")
      THEN LET timePart == Split(clockDisplayValue.text, SepDash)[1]
           IN  Elapsed(TimeLeft(Split(timePart, SepColon)))
      ELSE TimeState(JInt(IF period = 1 THEN 10 ELSE 30), JInt(IF period = 1 THEN 30 ELSE 10))

\* line 295
SA_Degenerate(ts) ==
  JLe(ts.minutesPlayed, JInt(0)) \/ JLe(ts.minutesRemaining, JInt(0))

\* lines 296-303
SA_Fallback(currentTotal, ts) ==
  [projectedTotal   |-> JInt(currentTotal + 25),
   pace             |-> JInt(70),
   confidence       |-> JInt(55),
   algorithm        |-> "Smart AI",
   minutesRemaining |-> ts.minutesRemaining,
   projectedPoints  |-> JInt(25)]

\* line 307
SA_CurrentPace(currentTotal, ts) ==
  JMul(JDiv(JInt(currentTotal), ts.minutesPlayed), JInt(40))

\* lines 308-345
\* lines 308-345: the statements that update adjustedPace in a call, in the
\* order in which they are executed
SA_Corrections(currentPace, scoreDiff, period, ts, homeTeam, awayTeam) ==
  LET Factors(gameProgress) ==
        When(period >= 2,
             Step("period", JSub(JFrac(94, 100), JMul(gameProgress, JFrac(3, 100)))))
        \o (IF scoreDiff > 20
            THEN <<Step("severe blowout", JSub(JFrac(82, 100), JFrac(scoreDiff, 200)))>>
            ELSE IF scoreDiff > 12
            THEN <<Step("moderate blowout", JSub(JFrac(91, 100), JFrac(scoreDiff, 300)))>>
            ELSE IF scoreDiff <= 3 /\ JLt(ts.minutesRemaining, JInt(5))
            THEN <<Step("close game",
                        JAdd(JFrac(118, 100),
                             JMul(JSub(JInt(5), ts.minutesRemaining), JFrac(2, 100))))>>
            ELSE <<>>)
        \o When(JLt(ts.minutesRemaining, JInt(2)) /\ scoreDiff > 4 /\ scoreDiff < 15,
                Step("fouling",
                     JAdd(JFrac(125, 100),
                          JMul(JSub(JInt(2), ts.minutesRemaining), JFrac(1, 10)))))
        \o <<Step("team", getTeamPaceMultiplier(homeTeam, awayTeam))>>
        \o <<Step("regression", MathMin(JFrac(25, 100), JMul(gameProgress, JFrac(3, 10))))>>
        \o <<Step("momentum",
                  JAdd(JInt(1),
                       JMul(JDiv(MathAbs(JSub(currentPace, JInt(70))), JInt(100)),
                            IF JGt(gameProgress, JFrac(7, 10)) THEN JFrac(-5, 10)
                            ELSE JFrac(2, 10))))>>
  IN  Factors(JDiv(ts.minutesPlayed, JInt(40)))

SA_AdjustedPace(currentPace, scoreDiff, period, ts, homeTeam, awayTeam) ==
  ApplyAll(currentPace, SA_Corrections(currentPace, scoreDiff, period, ts, homeTeam, awayTeam))

\* line 348
SA_RemainingPoints(adjustedPace, ts) ==
  JMul(JDiv(adjustedPace, JInt(40)), ts.minutesRemaining)

\* lines 352-355
SA_Confidence(currentPace, ts) ==
  LET gameProgress     == JDiv(ts.minutesPlayed, JInt(40))
      paceVariance     == MathAbs(JSub(currentPace, JInt(70)))
      baseConfidence   == JAdd(JInt(60), JMul(gameProgress, JInt(30)))
      stabilityBonus   == MathMax(JInt(0), JSub(JInt(10), JDiv(paceVariance, JInt(3))))
      dataQualityBonus == MathMin(JInt(8), JDiv(ts.minutesPlayed, JInt(5)))
  IN  MathMin(JInt(95),
              MathRound(JAdd(JAdd(baseConfidence, stabilityBonus), dataQualityBonus)))

\* line 358
SA_Floor(currentTotal, projectedTotal) ==
  MathMax(JInt(currentTotal + 3), projectedTotal)

smartAIProjection(homeScore, awayScore, clockDisplayValue, period, homeTeam, awayTeam) ==
  LET currentTotal == homeScore + awayScore
      scoreDiff    == IAbs(homeScore - awayScore)
      Return(ts, currentPace, projectedRemainingPoints) ==
        LET projectedTotal == MathRound(JAdd(JInt(currentTotal), projectedRemainingPoints))
        IN  [out |-> [projectedTotal   |-> SA_Floor(currentTotal, projectedTotal),
                      pace             |-> MathRound(currentPace),
                      confidence       |-> SA_Confidence(currentPace, ts),
                      algorithm        |-> "Smart AI",
                      minutesRemaining |-> RoundTenth(ts.minutesRemaining),
                      projectedPoints  |-> MathRound(projectedRemainingPoints)],
             ts |-> ts, fallback |-> FALSE, divided |-> TRUE]
      Project(ts, currentPace) ==
        LET adjustedPace == SA_AdjustedPace(currentPace, scoreDiff, period, ts, homeTeam, awayTeam)
        IN  Return(ts, currentPace, SA_RemainingPoints(adjustedPace, ts))
      Engine(ts) ==
        IF SA_Degenerate(ts)
        THEN [out |-> SA_Fallback(currentTotal, ts), ts |-> ts,
              fallback |-> TRUE, divided |-> FALSE]
        ELSE Project(ts, SA_CurrentPace(currentTotal, ts))
  IN  Engine(SA_ParseClock(clockDisplayValue, period))

(***************************************************************************)
(* calculateRealAIProjection, src/src/app/page.tsx:426-506                 *)
(***************************************************************************)
\* lines 435-451
AI_ParseClock(clockDisplayValue, period) ==
  LET Elapsed(timeLeftInPeriod) ==
        IF period = 1
        THEN TimeState(JSub(JInt(20), timeLeftInPeriod), JAdd(timeLeftInPeriod, JInt(20)))
        ELSE TimeState(JAdd(JInt(20), JSub(JInt(20), timeLeftInPeriod)), timeLeftInPeriod)
      TimeLeft(clockParts) ==
        LET minutesLeft == OrZero(ParseInt(clockParts[1]))
            \* parseInt(undefined) is NaN
            secondsLeft ==
              OrZero(IF Len(clockParts) >= 2 THEN ParseInt(clockParts[2]) ELSE NaN)
        IN  JAdd(minutesLeft, JDiv(secondsLeft, JInt(60)))
  IN  Elapsed(TimeLeft(IF Truthy(clockDisplayValue)
                       THEN Split(clockDisplayValue.text, SepColon)
                       ELSE << <<"0">>, <<"0", "0">> >>))

\* line 454
AI_Degenerate(ts) == JLe(ts.minutesPlayed, JInt(0))

\* lines 455-459
AI_Fallback(currentTotal, ts) ==
  [projectedTotal |-> JAdd(JInt(currentTotal),
                           MathRound(JMul(JFrac(70, 40), ts.minutesRemaining))),
   pace           |-> JInt(70),
   confidence     |-> JInt(50)]

\* line 463
AI_CurrentPace(currentTotal, ts) ==
  JMul(JDiv(JInt(currentTotal), ts.minutesPlayed), JInt(40))

\* lines 466-489
\* the same statements with the regression moved behind the multipliers
AI_CorrectionsRegressionLast(scoreDiff, period, ts) ==
  When(period = 2, Step("period", JFrac(94, 100)))
  \o (IF scoreDiff > 15 /\ JGt(ts.minutesPlayed, JInt(25))
      THEN <<Step("severe blowout", JFrac(88, 100))>>
      ELSE IF scoreDiff > 10 /\ JGt(ts.minutesPlayed, JInt(20))
      THEN <<Step("moderate blowout", JFrac(94, 100))>>
      ELSE <<>>)
  \o When(JLt(ts.minutesRemaining, JInt(2)) /\ scoreDiff > 5, Step("fouling", JFrac(115, 100)))
  \o <<Step("regression",
            MathMin(JFrac(3, 10), JMul(JDiv(ts.minutesPlayed, JInt(40)), JFrac(4, 10))))>>

\* lines 465-489: the statements that update adjustedPace in a call, in the
\* order in which they are executed
AI_Corrections(scoreDiff, period, ts) ==
  When(period = 2, Step("period", JFrac(94, 100)))
  \o <<Step("regression",
            MathMin(JFrac(3, 10), JMul(JDiv(ts.minutesPlayed, JInt(40)), JFrac(4, 10))))>>
  \o (IF scoreDiff > 15 /\ JGt(ts.minutesPlayed, JInt(25))
      THEN <<Step("severe blowout", JFrac(88, 100))>>
      ELSE IF scoreDiff > 10 /\ JGt(ts.minutesPlayed, JInt(20))
      THEN <<Step("moderate blowout", JFrac(94, 100))>>
      ELSE <<>>)
  \o When(JLt(ts.minutesRemaining, JInt(2)) /\ scoreDiff > 5, Step("fouling", JFrac(115, 100)))

AI_AdjustedPace(currentPace, scoreDiff, period, ts) ==
  ApplyAll(currentPace, AI_Corrections(scoreDiff, period, ts))

\* line 492
AI_RemainingPoints(adjustedPace, ts) ==
  JMul(JDiv(adjustedPace, JInt(40)), ts.minutesRemaining)

\* lines 496-499 and 504
AI_Confidence(currentPace, ts) ==
  LET gameProgress   == JDiv(ts.minutesPlayed, JInt(40))
      baseConfidence == JAdd(JInt(50), JMul(gameProgress, JInt(40)))
      stabilityBonus ==
        MathMin(JInt(10),
                JDiv(JSub(JInt(40), MathAbs(JSub(currentPace, JInt(70)))), JInt(4)))
      confidence == MathMin(JInt(95), MathRound(JAdd(baseConfidence, stabilityBonus)))
  IN  MathMax(JInt(50), confidence)

\* line 502
AI_Floor(currentTotal, projectedTotal) ==
  MathMax(JInt(currentTotal), projectedTotal)

\* The record of this variant has no algorithm, minutesRemaining or
\* projectedPoints field; they are filled with NoLabel and NaN here so that
\* results of the three variants have one shape.
NoLabel == "(none)"

calculateRealAIProjection(homeScore, awayScore, clockDisplayValue, period) ==
  LET currentTotal == homeScore + awayScore
      scoreDiff    == IAbs(homeScore - awayScore)
      Return(ts, currentPace, projectedRemainingPoints) ==
        LET projectedTotal == MathRound(JAdd(JInt(currentTotal), projectedRemainingPoints))
        IN  [out |-> [projectedTotal   |-> AI_Floor(currentTotal, projectedTotal),
                      pace             |-> MathRound(currentPace),
                      confidence       |-> AI_Confidence(currentPace, ts),
                      algorithm        |-> NoLabel,
                      minutesRemaining |-> NaN,
                      projectedPoints  |-> NaN],
             ts |-> ts, fallback |-> FALSE, divided |-> TRUE]
      Project(ts, currentPace) ==
        LET adjustedPace == AI_AdjustedPace(currentPace, scoreDiff, period, ts)
        IN  Return(ts, currentPace, AI_RemainingPoints(adjustedPace, ts))
      Engine(ts) ==
        IF AI_Degenerate(ts)
        THEN [out |-> AI_Fallback(currentTotal, ts)
                        @@ [algorithm |-> NoLabel, minutesRemaining |-> NaN,
                            projectedPoints |-> NaN],
              ts |-> ts, fallback |-> TRUE, divided |-> FALSE]
        ELSE Project(ts, AI_CurrentPace(currentTotal, ts))
  IN  Engine(AI_ParseClock(clockDisplayValue, period))

(***************************************************************************)
(* The signals fetchScores derives from a projection.  The three copies of *)
(* fetchScores are modelled separately: page (page.tsx:219-302), grouped   *)
(* (part_000:404-516) and legacy (page.tsx:580-661).                       *)
(***************************************************************************)
\* page.tsx:246-247
PG_PaceVsAverage(pace) == MathRound(JSub(pace, JInt(70)))

\* the same four rules with the pace rules tried before the total rules
PG_OverUnderEdgePaceFirst(projectedTotal, confidence, paceVsAverage) ==
  IF JGt(paceVsAverage, JInt(8)) /\ JGt(confidence, JInt(75)) THEN "OVER LEAN"
  ELSE IF JLt(paceVsAverage, JInt(-8)) /\ JGt(confidence, JInt(75)) THEN "UNDER LEAN"
  ELSE IF JGt(projectedTotal, JInt(145)) /\ JGt(confidence, JInt(80)) THEN "OVER LEAN"
  ELSE IF JLt(projectedTotal, JInt(125)) /\ JGt(confidence, JInt(80)) THEN "UNDER LEAN"
  ELSE "NEUTRAL"

\* page.tsx:249-258
PG_OverUnderEdge(projectedTotal, confidence, paceVsAverage) ==
  IF JGt(projectedTotal, JInt(145)) /\ JGt(confidence, JInt(80)) THEN "OVER LEAN"
  ELSE IF JLt(projectedTotal, JInt(125)) /\ JGt(confidence, JInt(80)) THEN "UNDER LEAN"
  ELSE IF JGt(paceVsAverage, JInt(8)) /\ JGt(confidence, JInt(75)) THEN "OVER LEAN"
  ELSE IF JLt(paceVsAverage, JInt(-8)) /\ JGt(confidence, JInt(75)) THEN "UNDER LEAN"
  ELSE "NEUTRAL"

\* the tempo rule with the thresholds of the README text (page.tsx:814-817)
PG_GameTempoReadme(pace, paceVsAverage) ==
  IF JGe(pace, JInt(75)) THEN "HOT"
  ELSE IF JLt(pace, JInt(65)) THEN "COLD"
  ELSE "NEUTRAL"

\* page.tsx:260-265
PG_GameTempo(pace, paceVsAverage) ==
  IF JGt(pace, JInt(78)) \/ JGt(paceVsAverage, JInt(10)) THEN "HOT"
  ELSE IF JLt(pace, JInt(62)) \/ JLt(paceVsAverage, JInt(-10)) THEN "COLD"
  ELSE "NEUTRAL"

IMin(a, b) == IF a <= b THEN a ELSE b

\* the ramp without its cap at 100
PG_BlowoutRiskUncapped(homeScore, awayScore) ==
  IF IAbs(homeScore - awayScore) > 15 THEN (IAbs(homeScore - awayScore) - 15) * 5 ELSE 0

\* page.tsx:267-268
PG_BlowoutRisk(homeScore, awayScore) ==
  LET scoreDifference == IAbs(homeScore - awayScore)
  IN  IF scoreDifference > 15 THEN IMin(100, (scoreDifference - 15) * 5) ELSE 0

PG_Signals(projection, homeScore, awayScore) ==
  LET paceVsAverage == PG_PaceVsAverage(projection.pace)
  IN  [paceVsAverage |-> paceVsAverage,
       overUnderEdge |-> PG_OverUnderEdge(projection.projectedTotal, projection.confidence,
                                          paceVsAverage),
       gameTempo     |-> PG_GameTempo(projection.pace, paceVsAverage),
       blowoutRisk   |-> PG_BlowoutRisk(homeScore, awayScore)]

\* part_000:461-462
GR_PaceVsAverage(pace) == MathRound(JSub(pace, JInt(70)))

\* part_000:464-473
GR_OverUnderEdge(projectedTotal, confidence, paceVsAverage) ==
  IF JGt(projectedTotal, JInt(145)) /\ JGt(confidence, JInt(80)) THEN "OVER LEAN"
  ELSE IF JLt(projectedTotal, JInt(125)) /\ JGt(confidence, JInt(80)) THEN "UNDER LEAN"
  ELSE IF JGt(paceVsAverage, JInt(8)) /\ JGt(confidence, JInt(75)) THEN "OVER LEAN"
  ELSE IF JLt(paceVsAverage, JInt(-8)) /\ JGt(confidence, JInt(75)) THEN "UNDER LEAN"
  ELSE "NEUTRAL"

\* part_000:475-480
GR_GameTempo(pace, paceVsAverage) ==
  IF JGt(pace, JInt(78)) \/ JGt(paceVsAverage, JInt(10)) THEN "HOT"
  ELSE IF JLt(pace, JInt(62)) \/ JLt(paceVsAverage, JInt(-10)) THEN "COLD"
  ELSE "NEUTRAL"

\* part_000:482-483
GR_BlowoutRisk(homeScore, awayScore) ==
  LET scoreDifference == IAbs(homeScore - awayScore)
  IN  IF scoreDifference > 15 THEN IMin(100, (scoreDifference - 15) * 5) ELSE 0

GR_Signals(projection, homeScore, awayScore) ==
  LET paceVsAverage == GR_PaceVsAverage(projection.pace)
  IN  [paceVsAverage |-> paceVsAverage,
       overUnderEdge |-> GR_OverUnderEdge(projection.projectedTotal, projection.confidence,
                                          paceVsAverage),
       gameTempo     |-> GR_GameTempo(projection.pace, paceVsAverage),
       blowoutRisk   |-> GR_BlowoutRisk(homeScore, awayScore)]

\* page.tsx:606-607
LG_PaceVsAverage(pace) == MathRound(JSub(pace, JInt(70)))

\* page.tsx:610-619
LG_OverUnderEdge(projectedTotal, confidence, paceVsAverage) ==
  IF JGt(projectedTotal, JInt(145)) /\ JGt(confidence, JInt(75)) THEN "OVER LEAN"
  ELSE IF JLt(projectedTotal, JInt(125)) /\ JGt(confidence, JInt(75)) THEN "UNDER LEAN"
  ELSE IF JGt(paceVsAverage, JInt(8)) /\ JGt(confidence, JInt(70)) THEN "OVER LEAN"
  ELSE IF JLt(paceVsAverage, JInt(-8)) /\ JGt(confidence, JInt(70)) THEN "UNDER LEAN"
  ELSE "NEUTRAL"

\* page.tsx:622-627
LG_GameTempo(pace, paceVsAverage) ==
  IF JGt(pace, JInt(78)) \/ JGt(paceVsAverage, JInt(10)) THEN "HOT"
  ELSE IF JLt(pace, JInt(62)) \/ JLt(paceVsAverage, JInt(-10)) THEN "COLD"
  ELSE "NEUTRAL"

\* page.tsx:629-630
LG_BlowoutRisk(homeScore, awayScore) ==
  LET scoreDifference == IAbs(homeScore - awayScore)
  IN  IF scoreDifference > 15 THEN IMin(100, (scoreDifference - 15) * 5) ELSE 0

LG_Signals(projection, homeScore, awayScore) ==
  LET paceVsAverage == LG_PaceVsAverage(projection.pace)
  IN  [paceVsAverage |-> paceVsAverage,
       overUnderEdge |-> LG_OverUnderEdge(projection.projectedTotal, projection.confidence,
                                          paceVsAverage),
       gameTempo     |-> LG_GameTempo(projection.pace, paceVsAverage),
       blowoutRisk   |-> LG_BlowoutRisk(homeScore, awayScore)]

\* page.tsx:601: comp.status.clockDisplayValue || '0:00'
LG_ClockArgument(clock) ==
  IF Truthy(clock) THEN clock ELSE [present |-> TRUE, text |-> <<"0", ":", "0", "0">>]

(***************************************************************************)
(* Inputs.                                                                 *)
(***************************************************************************)
MaxPeriod == 4
MaxClockMinute == 21
MaxScoreDiff == 41

Periods == 1..MaxPeriod

\* decimal digits of a natural
RECURSIVE NatChars(_)
NatChars(n) ==
  IF n < 10 THEN <<DigitChars[n + 1]>>
  ELSE NatChars(n \div 10) \o <<DigitChars[(n % 10) + 1]>>

\* the feed's "M:SS" clock
ClockChars(m, sec) ==
  NatChars(m) \o <<":", DigitChars[(sec \div 10) + 1], DigitChars[(sec % 10) + 1]>>

Text(t) == [present |-> TRUE, text |-> t]
Absent == [present |-> FALSE, text |-> <<>>]

ClockMinutes == {0, 1, 2, 4, 5, 12, 19, 20} \cup {MaxClockMinute}
ClockSeconds == {0, 30, 59}
Label2ndHalf == <<" ", "-", " ", "2", "n", "d", " ", "H", "a", "l", "f">>
Labels == {<<>>, Label2ndHalf}

WellFormedClocks ==
  {Text(ClockChars(m, sec) \o l) : m \in ClockMinutes, sec \in ClockSeconds, l \in Labels}

\* the demo game's clock
Clock845 == Text(<<"8", ":", "4", "5", " ", "-", " ", "2", "n", "d", " ", "H", "a", "l", "f">>)

\* clock texts without ':' (or no text at all)
EmptyClock == Text(<<>>)
Halftime == Text(<<"H", "a", "l", "f", "t", "i", "m", "e">>)
NoColonClocks == {Absent, EmptyClock, Halftime}

\* the text of part_000:448 for a scheduled game, and other texts with ':'
\* whose minutes or seconds field is not numeric
StartsClock == Text(<<"S", "t", "a", "r", "t", "s", " ", "7", ":", "0", "0", ":", "0", "0", " ", "P", "M">>)
BadSecondsClock == Text(<<"8", ":", "x", "x">>)
BadMinutesClock == Text(<<"E", "n", "d", ":", "3", "0">>)
\* includes(':') holds but the part before ' - ' has no ':'
LateColonClock == Text(<<"F", "i", "n", "a", "l", " ", "-", " ", "1", ":", "0", "0">>)
NonNumericClocks == {StartsClock, BadSecondsClock, BadMinutesClock, LateColonClock}

Clocks == WellFormedClocks \cup {Clock845} \cup NoColonClocks \cup NonNumericClocks

ScorePairs ==
  {<<0, 0>>, <<3, 1>>, <<35, 30>>, <<45, 35>>, <<40, 27>>, <<72, 68>>, <<61, 59>>,
   <<80, 55>>, <<90, 50>>, <<30, 52>>, <<100, 95>>, <<38, 20>>}

Duke == <<"D", "u", "k", "e", " ", "B", "l", "u", "e", " ", "D", "e", "v", "i", "l", "s">>
NorthCarolina == <<"N", "o", "r", "t", "h", " ", "C", "a", "r", "o", "l", "i", "n", "a", " ", "T", "a", "r", " ", "H", "e", "e", "l", "s">>
Virginia == <<"V", "i", "r", "g", "i", "n", "i", "a", " ", "C", "a", "v", "a", "l", "i", "e", "r", "s">>
Wisconsin == <<"W", "i", "s", "c", "o", "n", "s", "i", "n", " ", "B", "a", "d", "g", "e", "r", "s">>

Snapshot(scores, clock, period, home, away) ==
  [homeScore |-> scores[1], awayScore |-> scores[2], clock |-> clock, period |-> period,
   homeTeam |-> home, awayTeam |-> away]

\* the records of DEMO_GAMES (page.tsx:136-213); the tempo labels are written
\* without their emoji, as PG_GameTempo writes them
DemoRecord(id) ==
  CASE id = "demo1" ->
       [homeTeam |-> <<"D", "u", "k", "e", " ", "B", "l", "u", "e", " ", "D", "e", "v", "i", "l", "s">>,
        awayTeam |-> <<"N", "o", "r", "t", "h", " ", "C", "a", "r", "o", "l", "i", "n", "a", " ", "T", "a", "r", " ", "H", "e", "e", "l", "s">>,
        homeScore |-> 72, awayScore |-> 68,
        clock |-> Text(<<"8", ":", "4", "5", " ", "-", " ", "2", "n", "d", " ", "H", "a", "l", "f">>),
        period |-> 2, pace |-> JInt(82), projectedTotal |-> JInt(158),
        paceVsAverage |-> JInt(12), overUnderEdge |-> "OVER LEAN", gameTempo |-> "HOT",
        blowoutRisk |-> 15, confidence |-> JInt(87), algorithm |-> "Time-Based AI",
        minutesRemaining |-> JFrac(875, 100), projectedPoints |-> JInt(18)]
    [] id = "demo2" ->
       [homeTeam |-> <<"K", "e", "n", "t", "u", "c", "k", "y", " ", "W", "i", "l", "d", "c", "a", "t", "s">>,
        awayTeam |-> <<"L", "o", "u", "i", "s", "v", "i", "l", "l", "e", " ", "C", "a", "r", "d", "i", "n", "a", "l", "s">>,
        homeScore |-> 45, awayScore |-> 48,
        clock |-> Text(<<"1", "2", ":", "3", "0", " ", "-", " ", "2", "n", "d", " ", "H", "a", "l", "f">>),
        period |-> 2, pace |-> JInt(58), projectedTotal |-> JInt(111),
        paceVsAverage |-> JInt(-12), overUnderEdge |-> "UNDER LEAN", gameTempo |-> "COLD",
        blowoutRisk |-> 5, confidence |-> JInt(82), algorithm |-> "Time-Based AI",
        minutesRemaining |-> JFrac(125, 10), projectedPoints |-> JInt(18)]
    [] id = "demo3" ->
       [homeTeam |-> <<"G", "o", "n", "z", "a", "g", "a", " ", "B", "u", "l", "l", "d", "o", "g", "s">>,
        awayTeam |-> <<"U", "C", "L", "A", " ", "B", "r", "u", "i", "n", "s">>,
        homeScore |-> 58, awayScore |-> 55,
        clock |-> Text(<<"1", "5", ":", "2", "2", " ", "-", " ", "2", "n", "d", " ", "H", "a", "l", "f">>),
        period |-> 2, pace |-> JInt(71), projectedTotal |-> JInt(140),
        paceVsAverage |-> JInt(1), overUnderEdge |-> "NEUTRAL", gameTempo |-> "NEUTRAL",
        blowoutRisk |-> 8, confidence |-> JInt(79), algorithm |-> "Time-Based AI",
        minutesRemaining |-> JFrac(1537, 100), projectedPoints |-> JInt(27)]
    [] id = "demo4" ->
       [homeTeam |-> <<"M", "i", "c", "h", "i", "g", "a", "n", " ", "S", "t", "a", "t", "e", " ", "S", "p", "a", "r", "t", "a", "n", "s">>,
        awayTeam |-> <<"P", "u", "r", "d", "u", "e", " ", "B", "o", "i", "l", "e", "r", "m", "a", "k", "e", "r", "s">>,
        homeScore |-> 61, awayScore |-> 59,
        clock |-> Text(<<"6", ":", "1", "5", " ", "-", " ", "2", "n", "d", " ", "H", "a", "l", "f">>),
        period |-> 2, pace |-> JInt(75), projectedTotal |-> JInt(132),
        paceVsAverage |-> JInt(5), overUnderEdge |-> "NEUTRAL", gameTempo |-> "NEUTRAL",
        blowoutRisk |-> 3, confidence |-> JInt(91), algorithm |-> "Time-Based AI",
        minutesRemaining |-> JFrac(625, 100), projectedPoints |-> JInt(12)]

\* the event a demo record stands for
DemoSnapshot(id) ==
  Snapshot(<<DemoRecord(id).homeScore, DemoRecord(id).awayScore>>, DemoRecord(id).clock,
           DemoRecord(id).period, DemoRecord(id).homeTeam, DemoRecord(id).awayTeam)

DemoIds == {"demo1", "demo2", "demo3", "demo4"}

\* every score, clock and period with two unknown teams, a few games of
\* listed teams, and the events of the demo records
Snapshots ==
  {DemoSnapshot(id) : id \in DemoIds}
  \cup
  {Snapshot(sc, c, p, Unknown, Unknown) : sc \in ScorePairs, c \in Clocks, p \in Periods}
  \cup
  {Snapshot(sc, c, p, t[1], t[2]) :
     sc \in {<<72, 68>>, <<40, 27>>},
     c \in {Clock845, Text(ClockChars(1, 30)), Text(ClockChars(12, 0))},
     p \in {1, 2},
     t \in {<<Duke, NorthCarolina>>, <<Virginia, Wisconsin>>, <<Unknown, Duke>>}}

(***************************************************************************)
(* State.                                                                  *)
(*   snap     the event being mapped: the arguments of the engine          *)
(*   variant  which copy of fetchScores mapped it ("none" before)          *)
(*   call     what the engine returned, with the path it took              *)
(*   game     the signals of the mapped record                             *)
(*   first    what the engine returned the first time it was called for    *)
(*            snap, when the same event is submitted again                 *)
(*   calls    the number of engine calls made for other events since       *)
(*   last     the event of the latest engine call                          *)
(*   games    the component's games state (the ids of the listed games)    *)
(*   loading  the component's loading state                                *)
(*   polls    where each call of fetchScores stands                        *)
(*   escaped  whether an exception has left a call of fetchScores          *)
(*   shownBy  the call of fetchScores that set games last (0: none)        *)
(*   lookup   the keys and the multiplier getTeamPaceMultiplier found for   *)
(*            the teams of snap                                            *)
(*   aiModel  the fields of the NCAAProjectionModel singleton, with counts *)
(*            of the networks built and trained and of the disposals       *)
(*   predicts where each call of aiModel.predict stands, and its result    *)
(***************************************************************************)
VARIABLES snap, variant, call, game, first, calls, last, games, loading, polls, escaped,
          shownBy, lookup, aiModel, predicts

vars ==
  <<snap, variant, call, game, first, calls, last, games, loading, polls, escaped,
    shownBy, lookup, aiModel, predicts>>

\* the component state and the calls of fetchScores in flight
polling == <<games, loading, polls, escaped, shownBy>>

\* the team lookup and the neural model, apart from the page
aside == <<lookup, aiModel, predicts>>

\* the part of the state a single mapping of an event leaves alone
repeated == <<first, calls, last, polling, aside>>

NoCall ==
  [out |-> [projectedTotal |-> NaN, pace |-> NaN, confidence |-> NaN, algorithm |-> NoLabel,
            minutesRemaining |-> NaN, projectedPoints |-> NaN],
   ts |-> TimeState(NaN, NaN), fallback |-> FALSE, divided |-> FALSE]

NoSignals ==
  [paceVsAverage |-> NaN, overUnderEdge |-> NoLabel, gameTempo |-> NoLabel, blowoutRisk |-> 0]

MaxPolls == 3

\* page.tsx:216-217, part_000:399-400: useState([]), useState(true), and no
\* call of fetchScores made yet
NoPoll ==
  /\ games = <<>>
  /\ loading = TRUE
  /\ polls = [i \in 1..MaxPolls |-> "idle"]
  /\ escaped = FALSE
  /\ shownBy = 0

MaxPredicts == 2

NoLookup == [homeKey |-> <<>>, awayKey |-> <<>>, multiplier |-> NaN]

\* part_000:5-6: model = null, isLoaded = false
NoModel == [model |-> "null", isLoaded |-> FALSE, built |-> 0, trained |-> 0, disposed |-> 0]

NoPrediction == [projection |-> NaN, confidence |-> NaN]

NoAside ==
  /\ lookup = NoLookup
  /\ aiModel = NoModel
  /\ predicts = [i \in 1..MaxPredicts |->
                  [kind |-> "none", at |-> "idle", result |-> "none", value |-> NoPrediction,
                   loadFailed |-> FALSE, logged |-> "none"]]

NoRepeat == first = NoCall /\ calls = 0 /\ last = snap /\ NoPoll /\ NoAside

Init ==
  /\ snap \in Snapshots
  /\ variant = "none"
  /\ call = NoCall
  /\ game = NoSignals
  /\ NoRepeat

\* the map callback of page.tsx:226-289
MapEventPage ==
  /\ variant = "none"
  /\ \E projection \in {calculateRealProjection(snap.homeScore, snap.awayScore, snap.clock,
                                               snap.period, snap.homeTeam, snap.awayTeam)} :
         /\ call' = projection
         /\ game' = PG_Signals(projection.out, snap.homeScore, snap.awayScore)
  /\ variant' = "page"
  /\ UNCHANGED <<snap, repeated>>

\* the map callback of part_000:425-506
MapEventGrouped ==
  /\ variant = "none"
  /\ \E projection \in {smartAIProjection(snap.homeScore, snap.awayScore, snap.clock,
                                         snap.period, snap.homeTeam, snap.awayTeam)} :
         /\ call' = projection
         /\ game' = GR_Signals(projection.out, snap.homeScore, snap.awayScore)
  /\ variant' = "grouped"
  /\ UNCHANGED <<snap, repeated>>

\* the map callback of page.tsx:587-648
MapEventLegacy ==
  /\ variant = "none"
  /\ \E projection \in {calculateRealAIProjection(snap.homeScore, snap.awayScore,
                                                 LG_ClockArgument(snap.clock), snap.period)} :
         /\ call' = projection
         /\ game' = LG_Signals(projection.out, snap.homeScore, snap.awayScore)
  /\ variant' = "legacy"
  /\ UNCHANGED <<snap, repeated>>

Next == MapEventPage \/ MapEventGrouped \/ MapEventLegacy

Spec == Init /\ [][Next]_vars

(***************************************************************************)
(* The signal rules as functions of any projection: the projection fields  *)
(* and the scores are drawn from grids around the thresholds.              *)
(***************************************************************************)
GridTotals == {120, 124, 125, 126, 135, 144, 145, 146, 150}
GridConfidences == {70, 71, 75, 76, 80, 81, 85, 95}
GridPaces == {58, 59, 60, 61, 62, 63, 70, 77, 78, 79, 80, 81, 82}

GivenProjection(total, confidence, pace) ==
  [NoCall EXCEPT !.out.projectedTotal = JInt(total), !.out.confidence = JInt(confidence),
                 !.out.pace = JInt(pace)]

SignalInputs ==
  {<<GivenProjection(t, c, p), <<0, 0>>>> :
     t \in GridTotals, c \in GridConfidences, p \in GridPaces}
  \cup
  {<<GivenProjection(135, 85, 70), <<h, a>>>> : h \in 0..MaxScoreDiff, a \in {0, 2}}

InitSignals ==
  /\ \E in \in SignalInputs :
       /\ call = in[1]
       /\ snap = Snapshot(in[2], Absent, 1, Unknown, Unknown)
  /\ variant = "none"
  /\ game = NoSignals
  /\ NoRepeat

\* page.tsx:246-268
SignalsPage ==
  /\ variant = "none"
  /\ game' = PG_Signals(call.out, snap.homeScore, snap.awayScore)
  /\ variant' = "page"
  /\ UNCHANGED <<snap, call, repeated>>

\* part_000:461-483
SignalsGrouped ==
  /\ variant = "none"
  /\ game' = GR_Signals(call.out, snap.homeScore, snap.awayScore)
  /\ variant' = "grouped"
  /\ UNCHANGED <<snap, call, repeated>>

\* page.tsx:606-630
SignalsLegacy ==
  /\ variant = "none"
  /\ game' = LG_Signals(call.out, snap.homeScore, snap.awayScore)
  /\ variant' = "legacy"
  /\ UNCHANGED <<snap, call, repeated>>

NextSignals == SignalsPage \/ SignalsGrouped \/ SignalsLegacy

SpecSignals == InitSignals /\ [][NextSignals]_vars

(***************************************************************************)
(* The same event mapped again by a later poll, with the other events of   *)
(* the feed mapped in between: every poll maps every live event in turn    *)
(* (page.tsx:226-289, part_000:425-506), and polls repeat (page.tsx:306,   *)
(* part_000:520).                                                          *)
(***************************************************************************)
MaxCalls == 2

\* an engine that keeps the highest total it has projected in a module-level
\* cell and never reports less
EngineCallHighWater(v, s) ==
  IF v = "page"
  THEN [calculateRealProjection(s.homeScore, s.awayScore, s.clock, s.period, s.homeTeam, s.awayTeam)
        EXCEPT !.out.projectedTotal = IF call = NoCall THEN @ ELSE MathMax(@, call.out.projectedTotal)]
  ELSE [smartAIProjection(s.homeScore, s.awayScore, s.clock, s.period, s.homeTeam, s.awayTeam)
        EXCEPT !.out.projectedTotal = IF call = NoCall THEN @ ELSE MathMax(@, call.out.projectedTotal)]

\* the engine call of page.tsx:237-244 / part_000:451-458: its result is a
\* function of its six arguments (neither function reads or assigns a
\* module-level or component-level variable)
EngineCall(v, s) ==
  IF v = "page"
  THEN calculateRealProjection(s.homeScore, s.awayScore, s.clock, s.period, s.homeTeam, s.awayTeam)
  ELSE smartAIProjection(s.homeScore, s.awayScore, s.clock, s.period, s.homeTeam, s.awayTeam)

FeedClocks ==
  {Text(ClockChars(1, 30)), Text(ClockChars(5, 0)), Text(ClockChars(12, 0)),
   Text(ClockChars(20, 0)), Halftime, BadSecondsClock}

\* the events of one feed
FeedSnapshots ==
  {Snapshot(sc, c, p, Unknown, Unknown) :
     sc \in {<<72, 68>>, <<40, 27>>, <<90, 50>>}, c \in FeedClocks, p \in {1, 2}}
  \cup
  {Snapshot(<<72, 68>>, c, 2, Duke, NorthCarolina) : c \in {Clock845, Text(ClockChars(12, 0))}}

OtherSnapshots ==
  {Snapshot(<<90, 50>>, Text(ClockChars(4, 0)), 2, Unknown, Unknown),
   Snapshot(<<40, 27>>, Text(ClockChars(12, 0)), 1, Unknown, Unknown)}

InitCalls ==
  /\ snap \in FeedSnapshots
  /\ variant = "none"
  /\ call = NoCall
  /\ game = NoSignals
  /\ NoRepeat

\* a poll maps one event of the feed: the event snap, for the first time or
\* again, or another event (at most MaxCalls of those)
CallEngine ==
  /\ \E v \in (IF variant = "none" THEN {"page", "grouped"} ELSE {variant}) :
       /\ variant' = v
       /\ \E s \in (IF variant = "none" THEN {snap}
                    ELSE IF calls < MaxCalls THEN {snap} \cup OtherSnapshots
                    ELSE {snap}) :
            /\ s = snap => last # snap \/ variant = "none"
            /\ last' = s
            /\ calls' = IF s = snap THEN calls ELSE calls + 1
            /\ \E projection \in {EngineCall(v, s)} :
                 /\ call' = projection
                 /\ first' = IF variant = "none" THEN projection ELSE first
  /\ UNCHANGED <<snap, game, polling, aside>>

NextCalls == CallEngine

SpecCalls == InitCalls /\ [][NextCalls]_vars

(***************************************************************************)
(* Polling: useEffect calls fetchScores once and then every 8 seconds      *)
(* (page.tsx:304-308, part_000:518-522).  fetchScores is async: a call     *)
(* waits for fetch, then for res.json(), then filters and maps the events  *)
(* and sets the state in one synchronous run; calls may overlap.           *)
(***************************************************************************)
DEMO_GAMES == <<"demo1", "demo2", "demo3", "demo4">>

\* the ids of the events a feed lists that pass the filter
Feeds == {<<>>, <<"e1">>, <<"e1", "e2">>}

\* a fetchScores without try/catch: the state is left as it was and the
\* exception rejects the promise fetchScores returned
OnFailureUncaught(v, current) ==
  [games |-> current.games, loading |-> current.loading, escaped |-> TRUE]

\* the catch block of page.tsx:297-301 / part_000:511-515
OnFailure(v, current) ==
  [games |-> IF v = "grouped" THEN <<>> ELSE DEMO_GAMES, loading |-> FALSE,
   escaped |-> current.escaped]

\* page.tsx:291-296 / part_000:508-510
OnMapped(v, liveGames) ==
  IF v = "grouped" THEN liveGames
  ELSE IF Len(liveGames) = 0 THEN DEMO_GAMES ELSE liveGames

InitPoll ==
  /\ snap = Snapshot(<<0, 0>>, Absent, 1, Unknown, Unknown)
  /\ variant \in {"page", "grouped"}
  /\ call = NoCall
  /\ game = NoSignals
  /\ NoRepeat

\* useEffect's first call, or the interval timer firing
StartPoll ==
  /\ \E i \in 1..MaxPolls :
       /\ polls[i] = "idle"
       /\ \A j \in 1..(i - 1) : polls[j] # "idle"
       /\ polls' = [polls EXCEPT ![i] = "fetch"]
  /\ UNCHANGED <<snap, variant, call, game, first, calls, last, games, loading, escaped, shownBy, aside>>

Failures == {"fetch failed", "json failed", "map failed"}

\* poll i fails: control passes to the catch block
Fails(i, failure) ==
  /\ \E after \in {OnFailure(variant, [games |-> games, loading |-> loading, escaped |-> escaped])} :
       /\ games' = after.games
       /\ loading' = after.loading
       /\ escaped' = after.escaped
  /\ polls' = [polls EXCEPT ![i] = failure]
  /\ shownBy' = i
  /\ UNCHANGED <<snap, variant, call, game, first, calls, last, aside>>

\* await fetch(...) resolves
FetchResolves ==
  /\ \E i \in 1..MaxPolls :
       /\ polls[i] = "fetch"
       /\ polls' = [polls EXCEPT ![i] = "json"]
  /\ UNCHANGED <<snap, variant, call, game, first, calls, last, games, loading, escaped, shownBy, aside>>

\* await fetch(...) rejects: the network request failed
FetchRejects == \E i \in 1..MaxPolls : polls[i] = "fetch" /\ Fails(i, "fetch failed")

\* await res.json() rejects: the body is not JSON
JsonRejects == \E i \in 1..MaxPolls : polls[i] = "json" /\ Fails(i, "json failed")

\* res.json() resolves and filter/map throws (data.events missing, an event
\* without competitions, a detail that is not a string, ...)
MapThrows == \E i \in 1..MaxPolls : polls[i] = "json" /\ Fails(i, "map failed")

\* res.json() resolves and every event is mapped
MapSucceeds ==
  /\ \E i \in 1..MaxPolls :
       /\ polls[i] = "json"
       /\ polls' = [polls EXCEPT ![i] = "done"]
       /\ shownBy' = i
  /\ \E liveGames \in Feeds : games' = OnMapped(variant, liveGames)
  /\ loading' = FALSE
  /\ UNCHANGED <<snap, variant, call, game, first, calls, last, escaped, aside>>

NextPoll ==
  StartPoll \/ FetchResolves \/ FetchRejects \/ JsonRejects \/ MapThrows \/ MapSucceeds

SpecPoll == InitPoll /\ [][NextPoll]_vars

(***************************************************************************)
(* The team lookup of part_000:368-396 on display names: a key of the      *)
(* table followed by a mascot.                                             *)
(***************************************************************************)
Mascots ==
  {<<"W", "i", "l", "d", "c", "a", "t", "s">>, <<"T", "a", "r", " ", "H", "e", "e", "l", "s">>}

DisplayName(i, mascot) == teamFactors[i].key \o <<" ">> \o mascot

HomeNames ==
  {DisplayName(i, mascot) : i \in 1..Len(teamFactors), mascot \in Mascots} \cup {Unknown}

AwayNames == {Unknown, DisplayName(1, <<"W", "i", "l", "d", "c", "a", "t", "s">>),
              DisplayName(16, <<"W", "i", "l", "d", "c", "a", "t", "s">>)}

InitTeams ==
  /\ \E home \in HomeNames, away \in AwayNames :
       snap = Snapshot(<<0, 0>>, Absent, 1, home, away)
  /\ variant = "none"
  /\ call = NoCall
  /\ game = NoSignals
  /\ NoRepeat

\* part_000:388-395, the call of part_000:334
LookupTeams ==
  /\ lookup = NoLookup
  /\ lookup' = [homeKey |-> getTeamKey(snap.homeTeam),
                awayKey |-> getTeamKey(snap.awayTeam),
                multiplier |-> getTeamPaceMultiplier(snap.homeTeam, snap.awayTeam)]
  /\ UNCHANGED <<snap, variant, call, game, first, calls, last, polling, aiModel, predicts>>

NextTeams == LookupTeams

SpecTeams == InitTeams /\ [][NextTeams]_vars

(***************************************************************************)
(* The game clock runs while the score stands: the feed's clock counts     *)
(* down second by second within a period, and the second half starts at    *)
(* the full period length (page.tsx:50-56).  Each poll maps the event anew *)
(* (page.tsx:226-244).                                                     *)
(***************************************************************************)
HalfSeconds == 1200

ClockAtSeconds(n) == Text(ClockChars(n \div 60, n % 60))

\* the seconds left on the clock of an event of a running game
SecondsLeft(s) == CHOOSE n \in 0..HalfSeconds : s.clock = ClockAtSeconds(n)

\* the event one second later; after 0:00 of the first half, 20:00 of the second
AfterOneSecond(s, n) ==
  IF n > 0 THEN [s EXCEPT !.clock = ClockAtSeconds(n - 1)]
  ELSE [s EXCEPT !.period = 2, !.clock = ClockAtSeconds(HalfSeconds)]

RunScores == {<<0, 0>>, <<72, 68>>}

InitClock ==
  /\ \E sc \in RunScores : snap = Snapshot(sc, ClockAtSeconds(HalfSeconds), 1, Unknown, Unknown)
  /\ variant = "none"
  /\ call = NoCall
  /\ game = NoSignals
  /\ NoRepeat

\* the first poll maps the event at tip-off; every later step is the clock
\* going on by one second and a poll mapping the event again
ClockRuns ==
  /\ ~(variant = "page" /\ snap.period = 2 /\ SecondsLeft(snap) = 0)
  /\ \E s \in {IF variant = "none" THEN snap ELSE AfterOneSecond(snap, SecondsLeft(snap))} :
       /\ snap' = s
       /\ last' = s
       /\ call' = calculateRealProjection(s.homeScore, s.awayScore, s.clock, s.period,
                                          s.homeTeam, s.awayTeam)
  /\ variant' = "page"
  /\ UNCHANGED <<game, first, calls, polling, aside>>

NextClock == ClockRuns

SpecClock == InitClock /\ [][NextClock]_vars

(***************************************************************************)
(* The neural model, part_000:4-233.  aiModel is one object; predict and   *)
(* loadModel are async, so calls overlap at their awaits: loadModel awaits *)
(* the training (l.62), predict awaits loadModel (l.162) and the data of   *)
(* the prediction (l.194).  What the network returns is not determined by  *)
(* the arguments (it is trained on random samples, l.94-103).              *)
(***************************************************************************)
MaxDisposals == 1

NetworkOutputs == {JInt(0), JInt(150)}

\* lines 168, 212
PR_Pace(currentTotal, minutesPlayed) ==
  IF JGt(minutesPlayed, JInt(0))
  THEN JMul(JDiv(JInt(currentTotal), minutesPlayed), JInt(40))
  ELSE JInt(70)

\* lines 208-219: the catch block of predict
PR_Fallback(homeScore, awayScore, ts) ==
  [projection |->
     MathRound(JAdd(JInt(homeScore + awayScore),
                    JMul(JDiv(PR_Pace(homeScore + awayScore, ts.minutesPlayed), JInt(40)),
                         ts.minutesRemaining))),
   confidence |-> JInt(65)]

\* lines 196-206: the result built from the network's output
PR_Network(homeScore, awayScore, ts, projectedTotal) ==
  LET Confidence(pace) ==
        MathMin(JInt(95),
                JAdd(JAdd(JInt(60), JMul(JDiv(ts.minutesPlayed, JInt(40)), JInt(30))),
                     MathMax(JInt(0),
                             JSub(JInt(10), JDiv(MathAbs(JSub(pace, JInt(70))), JInt(2))))))
  IN  [projection |-> MathRound(MathMax(JInt(homeScore + awayScore + 3), projectedTotal)),
       confidence |-> MathRound(Confidence(PR_Pace(homeScore + awayScore, ts.minutesPlayed)))]

PredictInputs == {TimeState(JInt(0), JInt(40)), TimeState(JInt(10), JInt(30)),
                  TimeState(JFrac(3125, 100), JFrac(875, 100))}

InitModel ==
  /\ \E sc \in {<<72, 68>>, <<40, 27>>} : snap = Snapshot(sc, Absent, 2, Unknown, Unknown)
  /\ variant = "none"
  /\ \E ts \in PredictInputs : call = [NoCall EXCEPT !.ts = ts]
  /\ game = NoSignals
  /\ NoRepeat

\* everything but the neural model
outside == <<snap, variant, call, game, first, calls, last, polling, lookup>>

\* where a call stands when loadModel has returned to it
AfterLoad(kind) == IF kind = "predict" THEN "ready" ELSE "done"

\* a call of predict (l.161-162) or of loadModel (l.9) that finds the model
\* not loaded: loadModel builds and compiles the network (l.13-59) and starts
\* the training (l.62, l.79)
StartsLoading ==
  /\ \E i \in 1..MaxPredicts, kind \in {"predict", "loadModel"} :
       /\ predicts[i].at = "idle"
       /\ ~aiModel.isLoaded
       /\ predicts' = [predicts EXCEPT ![i].kind = kind, ![i].at = "training"]
  /\ aiModel' = [aiModel EXCEPT !.model = "built", !.built = @ + 1]
  /\ UNCHANGED outside

\* the same call when tf.sequential throws: the catch of l.66 logs it
BuildFails ==
  /\ \E i \in 1..MaxPredicts, kind \in {"predict", "loadModel"} :
       /\ predicts[i].at = "idle"
       /\ ~aiModel.isLoaded
       /\ predicts' = [predicts EXCEPT ![i].kind = kind, ![i].at = AfterLoad(kind),
                                       ![i].loadFailed = TRUE]
  /\ UNCHANGED <<outside, aiModel>>

\* a call of loadModel that finds isLoaded set (l.9)
AlreadyLoaded ==
  /\ \E i \in 1..MaxPredicts :
       /\ predicts[i].at = "idle"
       /\ aiModel.isLoaded
       /\ predicts' = [predicts EXCEPT ![i].kind = "loadModel", ![i].at = "done"]
  /\ UNCHANGED <<outside, aiModel>>

\* a call of predict that finds the model loaded (l.161): no await before
\* the inference
PredictsLoaded ==
  /\ \E i \in 1..MaxPredicts :
       /\ predicts[i].at = "idle"
       /\ aiModel.model # "null" /\ aiModel.isLoaded
       /\ predicts' = [predicts EXCEPT ![i].kind = "predict", ![i].at = "ready"]
  /\ UNCHANGED <<outside, aiModel>>

\* the training resolves (l.62-64)
TrainingDone ==
  /\ \E i \in 1..MaxPredicts :
       /\ predicts[i].at = "training"
       /\ predicts' = [predicts EXCEPT ![i].at = AfterLoad(predicts[i].kind)]
  /\ aiModel' = [aiModel EXCEPT !.isLoaded = TRUE, !.trained = @ + 1]
  /\ UNCHANGED outside

\* the training rejects: the catch of l.66 logs it, isLoaded stays false
TrainingFails ==
  /\ \E i \in 1..MaxPredicts :
       /\ predicts[i].at = "training"
       /\ predicts' = [predicts EXCEPT ![i].at = AfterLoad(predicts[i].kind),
                                       ![i].loadFailed = TRUE]
  /\ UNCHANGED <<outside, aiModel>>

\* predict ends in its catch block (l.208-219), which logs the error
Caught(i, error) ==
  predicts' = [predicts EXCEPT ![i].at = "done", ![i].result = "fallback",
                               ![i].logged = error,
                               ![i].value = PR_Fallback(snap.homeScore, snap.awayScore, call.ts)]

\* l.177-194: the inference starts; this.model!.predict throws when the
\* model is null
InferenceStarts ==
  /\ \E i \in 1..MaxPredicts :
       /\ predicts[i].at = "ready"
       /\ IF aiModel.model = "null" THEN Caught(i, "model is null")
          ELSE predicts' = [predicts EXCEPT ![i].at = "data"]
  /\ UNCHANGED <<outside, aiModel>>

\* tf.tensor2d or model.predict throws
InferenceThrows ==
  /\ \E i \in 1..MaxPredicts :
       /\ predicts[i].at = "ready"
       /\ aiModel.model # "null"
       /\ Caught(i, "inference threw")
  /\ UNCHANGED <<outside, aiModel>>

\* await prediction.data() resolves (l.194-206)
DataResolves ==
  /\ \E i \in 1..MaxPredicts, projectedTotal \in NetworkOutputs :
       /\ predicts[i].at = "data"
       /\ predicts' = [predicts EXCEPT ![i].at = "done", ![i].result = "network",
                                       ![i].value = PR_Network(snap.homeScore, snap.awayScore,
                                                               call.ts, projectedTotal)]
  /\ UNCHANGED <<outside, aiModel>>

\* await prediction.data() rejects
DataRejects ==
  /\ \E i \in 1..MaxPredicts :
       /\ predicts[i].at = "data"
       /\ Caught(i, "data rejected")
  /\ UNCHANGED <<outside, aiModel>>

\* dispose (l.223-229)
Dispose ==
  /\ aiModel.disposed < MaxDisposals
  /\ aiModel.model # "null"
  /\ aiModel' = [aiModel EXCEPT !.model = "null", !.isLoaded = FALSE, !.disposed = @ + 1]
  /\ UNCHANGED <<outside, predicts>>

NextModel ==
  \/ StartsLoading \/ BuildFails \/ AlreadyLoaded \/ PredictsLoaded
  \/ TrainingDone \/ TrainingFails
  \/ InferenceStarts \/ InferenceThrows \/ DataResolves \/ DataRejects
  \/ Dispose

SpecModel == InitModel /\ [][NextModel]_vars

(***************************************************************************)
(* Properties.  They read the state: snap is the event, call the engine's  *)
(* result for it, game the signals derived from the result.                *)
(***************************************************************************)
currentTotal == snap.homeScore + snap.awayScore

\* the clock 'M:SS' of value t = m + sec/60, with or without a ' - label'
ClockOf(m, sec) == {Text(ClockChars(m, sec) \o l) : l \in Labels}
ClockValue(m, sec) == JAdd(JInt(m), JFrac(sec, 60))

\* 'M:SS' clocks, any value
IsWellFormed(clock) == \E m \in ClockMinutes, sec \in ClockSeconds : clock \in ClockOf(m, sec)

\* length of a period in minutes
PeriodLength(period) == IF period <= 2 THEN 20 ELSE 5

\* 'M:SS' clocks whose value lies within the period
IsWithinPeriod(clock, period) ==
  \E m \in ClockMinutes, sec \in ClockSeconds :
    clock \in ClockOf(m, sec) /\ 60 * m + sec <= 60 * PeriodLength(period)

IsFinite(x) == ~x.nan

\* C1: for every snapshot with a well-formed clock, calculateRealProjection
\* returns projectedTotal >= currentTotal + 5 and smartAIProjection returns
\* projectedTotal >= currentTotal + 3, on the normal and the fallback path.
C1_ProjectionFloor ==
  IsWellFormed(snap.clock) =>
    /\ variant = "page" => JGe(call.out.projectedTotal, JInt(currentTotal + 5))
    /\ variant = "grouped" => JGe(call.out.projectedTotal, JInt(currentTotal + 3))

\* a normal-path call of calculateRealProjection in which the floor is what
\* is returned
C1_FloorBinds ==
  /\ variant = "page"
  /\ IsWellFormed(snap.clock)
  /\ ~call.fallback
  /\ currentTotal > 0
  /\ JEq(call.out.projectedTotal, JInt(currentTotal + 5))

\* C2: for every clock within the period's length, minutesPlayed +
\* minutesRemaining is 40 in periods 1 and 2, 45 in period 3, 50 in period 4
\* (40 plus 5 per overtime period started), and at period 3, clock 5:00,
\* minutesPlayed is 40.
C2_GameLength ==
  (variant \in {"page", "grouped"} /\ IsWithinPeriod(snap.clock, snap.period)) =>
    /\ JEq(JAdd(call.ts.minutesPlayed, call.ts.minutesRemaining),
           JInt(40 + 5 * (IF snap.period > 2 THEN snap.period - 2 ELSE 0)))
    /\ (snap.period = 3 /\ snap.clock \in ClockOf(5, 0)) => JEq(call.ts.minutesPlayed, JInt(40))

\* C3: a clock text with ':' whose minutes or seconds field is not numeric
\* yields a record whose five numeric fields are all finite.
C3_NonNumericIsFinite ==
  (variant \in {"page", "grouped"} /\ snap.clock \in NonNumericClocks) =>
    /\ IsFinite(call.out.projectedTotal)
    /\ IsFinite(call.out.pace)
    /\ IsFinite(call.out.confidence)
    /\ IsFinite(call.out.minutesRemaining)
    /\ IsFinite(call.out.projectedPoints)

IsIntegerIn(x, lo, hi) == JIsInt(x) /\ JLe(JInt(lo), x) /\ JLe(x, JInt(hi))

\* C4: the returned confidence is an integer in [0,100] for every snapshot,
\* and in [50,96] whenever the early return was not taken, for each of the
\* three engines.
C4_ConfidenceRange ==
  variant # "none" =>
    /\ IsIntegerIn(call.out.confidence, 0, 100)
    /\ ~call.fallback => IsIntegerIn(call.out.confidence, 50, 96)

\* C5: when minutesPlayed <= 0 or minutesRemaining <= 0 the engine returns
\* currentTotal plus a constant (30 resp. 25), pace 70, a confidence in
\* [50,55] and the label 'Fallback'; the normal path returns another label.
C5_FallbackRecord ==
  variant \in {"page", "grouped"} =>
    /\ (JLe(call.ts.minutesPlayed, JInt(0)) \/ JLe(call.ts.minutesRemaining, JInt(0))) =>
         /\ call.fallback
         /\ ~call.divided
         /\ JEq(call.out.projectedTotal,
                JInt(currentTotal + (IF variant = "page" THEN 30 ELSE 25)))
         /\ JEq(call.out.pace, JInt(70))
         /\ IsIntegerIn(call.out.confidence, 50, 55)
         /\ call.out.algorithm = "Fallback"
    /\ ~call.fallback => call.out.algorithm # "Fallback"

\* the four conditions of the over/under rule on the mapped record
TotalOver  == JGt(call.out.projectedTotal, JInt(145)) /\ JGt(call.out.confidence, JInt(80))
TotalUnder == JLt(call.out.projectedTotal, JInt(125)) /\ JGt(call.out.confidence, JInt(80))
PaceOver   == JGt(game.paceVsAverage, JInt(8)) /\ JGt(call.out.confidence, JInt(75))
PaceUnder  == JLt(game.paceVsAverage, JInt(-8)) /\ JGt(call.out.confidence, JInt(75))

IsGiven(total, confidence, pace) ==
  /\ JEq(call.out.projectedTotal, JInt(total))
  /\ JEq(call.out.confidence, JInt(confidence))
  /\ JEq(call.out.pace, JInt(pace))

\* what C6 says of its three examples
EdgeExamples ==
  /\ IsGiven(150, 85, 70) => game.overUnderEdge = "OVER LEAN"
  /\ IsGiven(120, 85, 70) => game.overUnderEdge = "UNDER LEAN"
  /\ IsGiven(135, 85, 70) => game.overUnderEdge = "NEUTRAL"

\* C6 as stated: overUnderEdge is OVER LEAN exactly when the total rule or
\* the pace rule for over holds, UNDER LEAN exactly when the total rule or
\* the pace rule for under holds, NEUTRAL otherwise.
C6_EdgeAsStated ==
  variant \in {"page", "grouped"} =>
    /\ game.overUnderEdge = "OVER LEAN" <=> (TotalOver \/ PaceOver)
    /\ game.overUnderEdge = "UNDER LEAN" <=> (TotalUnder \/ PaceUnder)
    /\ game.overUnderEdge = "NEUTRAL" <=> ~(TotalOver \/ PaceOver \/ TotalUnder \/ PaceUnder)
    /\ EdgeExamples

\* C6, amended: the rules are tried in the order total-over, total-under,
\* pace-over, pace-under and the first that holds decides; so OVER LEAN
\* exactly when total-over, or pace-over without total-under, and UNDER LEAN
\* exactly when total-under, or pace-under without total-over.
C6_EdgeFirstMatch ==
  variant \in {"page", "grouped"} =>
    /\ game.overUnderEdge = "OVER LEAN" <=> (TotalOver \/ (~TotalUnder /\ PaceOver))
    /\ game.overUnderEdge = "UNDER LEAN" <=> (TotalUnder \/ (~TotalOver /\ PaceUnder))
    /\ game.overUnderEdge = "NEUTRAL" <=> ~(TotalOver \/ PaceOver \/ TotalUnder \/ PaceUnder)
    /\ EdgeExamples

\* a record on which a total rule and the opposite pace rule both hold
C6_RulesDisagree ==
  /\ variant = "page"
  /\ TotalUnder
  /\ PaceOver
  /\ game.overUnderEdge = "UNDER LEAN"

\* C7: for period 1 or 2 and a clock within the period (0:00 in period 2
\* included), calculateRealAIProjection returns projectedTotal > homeScore +
\* awayScore.
C7_LegacyExceedsScore ==
  (variant = "legacy" /\ snap.period \in {1, 2} /\ IsWithinPeriod(snap.clock, snap.period)) =>
    JGt(call.out.projectedTotal, JInt(currentTotal))

\* the time state the clock of value t must parse to in periods 1 and 2
IsParsedAs(ts, period, t) ==
  IF period = 1
  THEN JEq(ts.minutesPlayed, JSub(JInt(20), t)) /\ JEq(ts.minutesRemaining, JAdd(t, JInt(20)))
  ELSE JEq(ts.minutesPlayed, JSub(JInt(40), t)) /\ JEq(ts.minutesRemaining, t)

\* C8: for a clock 'M:SS' (with or without ' - label') of value t the parser
\* yields (20 - t, t + 20) in period 1 and (40 - t, t) in period 2; so period
\* 1 at 20:00 is (0, 40), period 2 at 0:00 is (40, 0), and both take the
\* early return instead of the pace division.
C8_ClockParser ==
  (variant \in {"page", "grouped"} /\ snap.period \in {1, 2}) =>
    /\ \A m \in ClockMinutes, sec \in ClockSeconds :
         snap.clock \in ClockOf(m, sec) => IsParsedAs(call.ts, snap.period, ClockValue(m, sec))
    /\ (snap.period = 1 /\ snap.clock \in ClockOf(20, 0)) =>
         /\ JEq(call.ts.minutesPlayed, JInt(0))
         /\ JEq(call.ts.minutesRemaining, JInt(40))
         /\ call.fallback
         /\ ~call.divided
    /\ (snap.period = 2 /\ snap.clock \in ClockOf(0, 0)) =>
         /\ JEq(call.ts.minutesPlayed, JInt(40))
         /\ JEq(call.ts.minutesRemaining, JInt(0))
         /\ call.fallback
         /\ ~call.divided

\* the end of regulation, parsed and sent to the early return
C8_EndOfRegulation ==
  /\ variant = "page"
  /\ snap.period = 2
  /\ snap.clock \in ClockOf(0, 0)
  /\ JEq(call.ts.minutesPlayed, JInt(40))
  /\ call.fallback

\* C9: a clock that is absent, empty or without ':' parses to (10, 30) in
\* period 1 and to (30, 10) otherwise, and in every call of
\* calculateRealProjection and smartAIProjection currentTotal / minutesPlayed
\* is evaluated only with minutesPlayed > 0.
C9_CoarseClockAndDivision ==
  variant \in {"page", "grouped"} =>
    /\ snap.clock \in NoColonClocks =>
         /\ JEq(call.ts.minutesPlayed, JInt(IF snap.period = 1 THEN 10 ELSE 30))
         /\ JEq(call.ts.minutesRemaining, JInt(IF snap.period = 1 THEN 30 ELSE 10))
    /\ call.divided => JGt(call.ts.minutesPlayed, JInt(0))

scoreDifference == IAbs(snap.homeScore - snap.awayScore)

\* C10: blowoutRisk is 0 for a score difference of at most 15 and
\* min(100, (difference - 15) * 5) above; it lies in [0,100], is 100 from a
\* difference of 35 on, and no smaller difference has a greater risk.
C10_BlowoutRisk ==
  variant \in {"page", "grouped"} =>
    /\ game.blowoutRisk = (IF scoreDifference <= 15 THEN 0
                           ELSE IMin(100, (scoreDifference - 15) * 5))
    /\ game.blowoutRisk \in 0..100
    /\ scoreDifference >= 35 => game.blowoutRisk = 100
    /\ \A d \in 0..scoreDifference :
         /\ PG_BlowoutRisk(d, 0) <= game.blowoutRisk
         /\ GR_BlowoutRisk(0, d) <= game.blowoutRisk

\* a difference past the point where the ramp reaches 100
C10_Saturated ==
  /\ variant = "page"
  /\ scoreDifference > 35
  /\ game.blowoutRisk = 100

\* the tempo conditions on the mapped record, with paceVsAverage = pace - 70
TempoHot ==
  JGt(call.out.pace, JInt(78)) \/ JGt(JSub(call.out.pace, JInt(70)), JInt(10))
TempoCold ==
  JLt(call.out.pace, JInt(62)) \/ JLt(JSub(call.out.pace, JInt(70)), JInt(-10))

C12_ReadmeTempo ==
  (variant \in {"page", "legacy"} /\ JIsInt(call.out.pace)) =>
    game.gameTempo = (IF JGe(call.out.pace, JInt(75)) THEN "HOT"
                      ELSE IF JLt(call.out.pace, JInt(65)) THEN "COLD"
                      ELSE "NEUTRAL")

IsTenth(x) == JIsInt(JMul(x, JInt(10)))

\* C14: for every clock 'M:SS', longer than the period or not, on the normal
\* and on the fallback path, the returned minutesRemaining has at most one
\* decimal place and projectedTotal, pace, confidence and projectedPoints
\* are integers.
C14_RoundedFields ==
  (variant \in {"page", "grouped"} /\ IsWellFormed(snap.clock)) =>
    /\ IsTenth(call.out.minutesRemaining)
    /\ JIsInt(call.out.projectedTotal)
    /\ JIsInt(call.out.pace)
    /\ JIsInt(call.out.confidence)
    /\ JIsInt(call.out.projectedPoints)

\* the demo game of page.tsx:138-145 as an event
IsDemoSnapshot ==
  /\ snap.homeScore = 72
  /\ snap.awayScore = 68
  /\ snap.clock = Clock845
  /\ snap.period = 2

\* C15: for home 72, away 68, clock '8:45 - 2nd Half', period 2,
\* calculateRealProjection computes minutesPlayed 31.25 and minutesRemaining
\* 8.75, an unadjusted pace of 179.2 reported as 179, takes the normal path,
\* returns projectedTotal >= 140 + 5 and confidence <= 95, and the tempo
\* signal is HOT.
C15_DemoScenario ==
  (variant = "page" /\ IsDemoSnapshot) =>
    /\ JEq(call.ts.minutesPlayed, JFrac(3125, 100))
    /\ JEq(call.ts.minutesRemaining, JFrac(875, 100))
    /\ JEq(RP_CurrentPace(currentTotal, call.ts), JFrac(1792, 10))
    /\ JEq(call.out.pace, JInt(179))
    /\ ~call.fallback
    /\ JGe(call.out.projectedTotal, JInt(140 + 5))
    /\ JLe(call.out.confidence, JInt(95))
    /\ game.gameTempo = "HOT"

\* the demo game mapped by page.tsx
C15_DemoMapped ==
  /\ variant = "page"
  /\ IsDemoSnapshot
  /\ currentTotal = 140
  /\ JEq(call.out.projectedTotal, JInt(170))
  /\ JEq(call.out.minutesRemaining, JFrac(88, 10))

\* two numbers that are the same value, NaN included
SameNumber(x, y) == (x.nan /\ y.nan) \/ JEq(x, y)

\* C16: whenever calculateRealProjection evaluates the pace division (the
\* early return reports the constant 70), the reported pace is
\* round((homeScore + awayScore) / minutesPlayed * 40), whatever the score
\* difference, the period and the teams, which only the adjustment factors
\* read; and paceVsAverage equals pace - 70 in every mapped record.
C16_UnadjustedPace ==
  variant = "page" =>
    /\ ~call.fallback =>
         SameNumber(call.out.pace,
                    MathRound(JMul(JDiv(JInt(currentTotal), call.ts.minutesPlayed), JInt(40))))
    /\ SameNumber(game.paceVsAverage, JSub(call.out.pace, JInt(70)))

\* a normal-path call in which the severe-blowout, the period and the
\* regression adjustments all fire
C16_AdjustmentsFired ==
  /\ variant = "page"
  /\ ~call.fallback
  /\ snap.period = 2
  /\ scoreDifference > 20
  /\ JGt(call.ts.minutesPlayed, JInt(0))
  /\ snap.clock = Clock845
  /\ JEq(call.out.pace, JInt(179))
  /\ JEq(game.paceVsAverage, JInt(109))

\* the games shown after a failed poll
SafeDefault == IF variant = "grouped" THEN <<>> ELSE DEMO_GAMES

\* the timer can start another call of fetchScores
CanStartPoll == ENABLED StartPoll

\* C17: whenever a call of fetchScores fails, in the request, in the JSON
\* parsing or in the mapping of the events, that step sets games to the safe
\* default (DEMO_GAMES in page.tsx, the empty list in the grouped dashboard)
\* and loading to false; no exception ever leaves fetchScores; and as long
\* as a poll is still to come, the timer can start it, failed polls or not.
C17_FailureHandled ==
  /\ [][\A i \in 1..MaxPolls :
          (polls[i] \notin Failures /\ polls'[i] \in Failures) =>
            (games' = SafeDefault /\ loading' = FALSE /\ escaped' = FALSE)]_vars
  /\ [](variant \in {"page", "grouped"} => ~escaped)
  /\ []((\E i \in 1..MaxPolls : polls[i] = "idle") => CanStartPoll)

\* a poll whose mapping failed after an earlier poll had listed live games,
\* with the next poll under way
C17_FailedThenPolledAgain ==
  /\ polls[1] = "done"
  /\ polls[2] = "map failed"
  /\ polls[3] = "fetch"
  /\ games = SafeDefault
  /\ loading = FALSE
  /\ ~escaped

\* the pace the adjustments start from, and the statements that adjust it
currentPace ==
  IF variant = "page" THEN RP_CurrentPace(currentTotal, call.ts)
  ELSE IF variant = "grouped" THEN SA_CurrentPace(currentTotal, call.ts)
  ELSE AI_CurrentPace(currentTotal, call.ts)

CorrectionsAt(ts) ==
  IF variant = "page" THEN RP_Corrections(scoreDifference, snap.period, ts)
  ELSE IF variant = "grouped"
  THEN SA_Corrections(currentPace, scoreDifference, snap.period, ts,
                      snap.homeTeam, snap.awayTeam)
  ELSE AI_Corrections(scoreDifference, snap.period, ts)

Corrections == CorrectionsAt(call.ts)

NamesOf(steps) == [i \in DOMAIN steps |-> steps[i].name]

CorrectionNames == NamesOf(Corrections)

\* the place of a correction in the stated order (0: not one of them)
StatedRank(name) ==
  CASE name = "period" -> 1
    [] name \in {"severe blowout", "moderate blowout"} -> 2
    [] name = "close game" -> 3
    [] name = "fouling" -> 4
    [] name = "team" -> 5
    [] name = "regression" -> 6
    [] OTHER -> 0

InStatedOrder(names) ==
  /\ \A i \in DOMAIN names : StatedRank(names[i]) > 0
  /\ \A i, j \in DOMAIN names : i < j => StatedRank(names[i]) < StatedRank(names[j])

EndsWithRegression(names) == names # <<>> /\ names[Len(names)] = "regression"

\* the order of calculateRealAIProjection: regression right after the period
\* slowdown, the blowout and fouling multipliers behind it
LegacyRank(name) ==
  CASE name = "period" -> 1
    [] name = "regression" -> 2
    [] name \in {"severe blowout", "moderate blowout"} -> 3
    [] name = "fouling" -> 4
    [] OTHER -> 0

InLegacyOrder(names) ==
  /\ \A i \in DOMAIN names : LegacyRank(names[i]) > 0
  /\ \A i, j \in DOMAIN names : i < j => LegacyRank(names[i]) < LegacyRank(names[j])
  /\ \E i \in DOMAIN names : names[i] = "regression"

RegressionLast(names) == InStatedOrder(names) /\ EndsWithRegression(names)

\* the stated order followed by the momentum multiplier
MomentumAfter(names) ==
  /\ Len(names) >= 3
  /\ names[Len(names)] = "momentum"
  /\ RegressionLast(SubSeq(names, 1, Len(names) - 1))

\* C18: in each of the three engines the corrections applied in a call
\* follow the order period slowdown, blowout slowdown, close-game
\* acceleration, late fouling surge, team factor, regression to the mean,
\* and the regression is the last statement that changes the pace.
C18_RegressionLast ==
  (variant # "none" /\ ~call.fallback) => RegressionLast(CorrectionNames)

\* C18, amended: calculateRealProjection applies its corrections in the
\* stated order with the regression last; calculateRealAIProjection applies
\* the regression right after the period slowdown and multiplies by its
\* blowout and fouling factors after the blend with 70; smartAIProjection
\* follows the stated order up to the regression and then multiplies the
\* blended pace by its momentum factor.
C18_OrderPerEngine ==
  (variant # "none" /\ ~call.fallback) =>
    /\ variant = "page" => RegressionLast(CorrectionNames)
    /\ variant = "legacy" => InLegacyOrder(CorrectionNames)
    /\ variant = "grouped" => MomentumAfter(CorrectionNames)

\* a call of calculateRealAIProjection that multiplies the pace twice after
\* the blend with 70
C18_MultipliedAfterBlend ==
  /\ variant = "legacy"
  /\ ~call.fallback
  /\ CorrectionNames = <<"period", "regression", "severe blowout", "fouling">>

AppliedIn(names, name) == \E i \in DOMAIN names : names[i] = name

\* how many of the three score-situation multipliers were applied
SituationsIn(names) ==
  Cardinality({n \in {"severe blowout", "moderate blowout", "close game"} : AppliedIn(names, n)})

ExclusiveSituations(names) ==
  /\ SituationsIn(names) <= 1
  /\ AppliedIn(names, "severe blowout") => scoreDifference > 20
  /\ AppliedIn(names, "moderate blowout") => scoreDifference > 12
  /\ AppliedIn(names, "close game") =>
       (scoreDifference <= 3 /\ JLt(call.ts.minutesRemaining, JInt(5)))
  /\ (AppliedIn(names, "fouling") /\ AppliedIn(names, "moderate blowout")) <=>
       (12 < scoreDifference /\ scoreDifference < 15 /\ JLt(call.ts.minutesRemaining, JInt(2)))
  /\ ~(AppliedIn(names, "fouling") /\ AppliedIn(names, "severe blowout"))
  /\ ~(AppliedIn(names, "fouling") /\ AppliedIn(names, "close game"))

\* C19: in a call of calculateRealProjection or smartAIProjection that
\* reaches the adjustments, at most one of the severe-blowout
\* (scoreDiff > 20), moderate-blowout (scoreDiff > 12) and close-game
\* (scoreDiff <= 3, minutesRemaining < 5) multipliers is applied; the
\* fouling multiplier is applied together with the moderate-blowout one
\* exactly when 12 < scoreDiff < 15 and minutesRemaining < 2, and never
\* together with the severe-blowout or the close-game one.
C19_ExclusiveSituations ==
  (variant \in {"page", "grouped"} /\ ~call.fallback) => ExclusiveSituations(CorrectionNames)

\* a call in which the moderate-blowout and the fouling multiplier both apply
C19_ModerateAndFouling ==
  /\ variant = "page"
  /\ ~call.fallback
  /\ scoreDifference = 13
  /\ CorrectionNames = <<"period", "moderate blowout", "fouling", "regression">>

RegressionIndex(steps) == CHOOSE i \in DOMAIN steps : steps[i].name = "regression"

\* the regression weight of a call with the given minutes played
WeightOf(steps) == steps[RegressionIndex(steps)].by
WeightAt(minutes) == WeightOf(CorrectionsAt(TimeState(JInt(minutes), call.ts.minutesRemaining)))

\* the cap of the regression weight
WeightCap == IF variant = "grouped" THEN JFrac(25, 100) ELSE JFrac(3, 10)

GridMinutes == {1, 5, 10, 20, 30, 33, 34, 39}

Between(x, lo, hi) == (JLe(lo, x) /\ JLe(x, hi)) \/ (JLe(hi, x) /\ JLe(x, lo))

\* the pace before and after the regression statement
BlendIsBetween(before, step) == Between(ApplyStep(before, step), before, JInt(70))

RegressionBlend(steps, k) ==
  /\ JLe(steps[k].by, WeightCap)
  /\ \A minutes \in GridMinutes :
       /\ JLe(JInt(minutes), call.ts.minutesPlayed) => JLe(WeightAt(minutes), steps[k].by)
       /\ JGe(JInt(minutes), call.ts.minutesPlayed) => JGe(WeightAt(minutes), steps[k].by)
  /\ BlendIsBetween(ApplyAll(currentPace, SubSeq(steps, 1, k - 1)), steps[k])

BlendOf(steps) == RegressionBlend(steps, RegressionIndex(steps))

\* C20: in every call that reaches the adjustments, the regression weight
\* is non-decreasing in minutesPlayed and at most its cap (0.3 in
\* calculateRealProjection and calculateRealAIProjection, 0.25 in
\* smartAIProjection), and the blended pace lies between the pace before the
\* blend and 70, both included.
C20_RegressionBlend ==
  (variant # "none" /\ ~call.fallback) => BlendOf(Corrections)

\* C21: in each of the three engines, a call that reaches the adjustments
\* applies the period slowdown exactly when period >= 2: in the second half
\* and in every overtime period.
C21_PeriodSlowdown ==
  (variant # "none" /\ ~call.fallback) =>
    (AppliedIn(CorrectionNames, "period") <=> snap.period >= 2)

\* the multiplier of the team statement of a call of smartAIProjection
TeamMultiplierIn(steps) == steps[CHOOSE i \in DOMAIN steps : steps[i].name = "team"].by

WithoutTeam(steps) == SelectSeq(steps, LAMBDA step : step.name # "team")

NeutralTeamFactor(steps) ==
  /\ JEq(TeamMultiplierIn(steps), JInt(1))
  /\ SameNumber(ApplyAll(currentPace, steps), ApplyAll(currentPace, WithoutTeam(steps)))

\* C22: when neither team name holds a key of the team-factor table,
\* getTeamPaceMultiplier returns exactly 1, so the adjusted pace of
\* smartAIProjection for two unknown teams is that of the same chain without
\* the team statement.
C22_UnknownTeamsNeutral ==
  (variant = "grouped" /\ ~call.fallback
     /\ snap.homeTeam = Unknown /\ snap.awayTeam = Unknown) =>
    NeutralTeamFactor(Corrections)

\* the coefficient of the table key a display name starts with, 1 for Unknown
CoefficientOf(name) ==
  IF name = Unknown THEN JInt(1)
  ELSE JFrac(teamFactors[CHOOSE i \in 1..Len(teamFactors) :
                           \E mascot \in Mascots : name = DisplayName(i, mascot)].factor, 100)

\* C23: for every key of the team-factor table, two-word keys included, a
\* display name made of the key and a mascot is looked up under that key,
\* and the multiplier is built from that key's coefficient.
C23_KeyWithMascot ==
  lookup # NoLookup =>
    /\ \A i \in 1..Len(teamFactors), mascot \in Mascots :
         snap.homeTeam = DisplayName(i, mascot) => lookup.homeKey = teamFactors[i].key
    /\ JEq(lookup.multiplier,
           JDiv(JAdd(JMul(CoefficientOf(snap.homeTeam), JFrac(102, 100)),
                     CoefficientOf(snap.awayTeam)), JInt(2)))

Started == {i \in 1..MaxPolls : polls[i] # "idle"}
InFlight == {i \in 1..MaxPolls : polls[i] \in {"fetch", "json"}}

\* C24: polls overlap, and whenever no poll is in flight the games on
\* display were set by the poll started last: the response of an older poll
\* never replaces that of a newer one.
C24_LatestPollShown ==
  (Started # {} /\ InFlight = {}) => \A i \in Started : i <= shownBy

(***************************************************************************)
(* C25: with no dispose between the calls, predict and loadModel build and *)
(* train the network at most once, however the calls interleave.           *)
(***************************************************************************)
C25_BuiltOnce ==
  aiModel.disposed = 0 => (aiModel.built <= 1 /\ aiModel.trained <= 1)

\* the rule-based result as the claim states it
RuleBased ==
  LET pace == IF JLe(call.ts.minutesPlayed, JInt(0)) THEN JInt(70)
              ELSE JMul(JDiv(JInt(currentTotal), call.ts.minutesPlayed), JInt(40))
  IN  [projection |-> MathRound(JAdd(JInt(currentTotal),
                                     JMul(JDiv(pace, JInt(40)), call.ts.minutesRemaining))),
       confidence |-> JInt(65)]

(***************************************************************************)
(* C26: predict never rejects, and a predict whose loading failed, whose   *)
(* model was null or whose inference threw resolves with the rule-based    *)
(* result: round(currentTotal + pace / 40 * minutesRemaining) and          *)
(* confidence 65.                                                          *)
(***************************************************************************)
C26_PredictFallsBack ==
  \A i \in 1..MaxPredicts :
    (predicts[i].kind = "predict" /\ predicts[i].at = "done") =>
      /\ predicts[i].result \in {"network", "fallback"}
      /\ (predicts[i].loadFailed \/ predicts[i].logged # "none") =>
           (predicts[i].result = "fallback" /\ predicts[i].value = RuleBased)

(***************************************************************************)
(* C27: every record of calculateRealProjection and of smartAIProjection   *)
(* has projectedTotal = homeScore + awayScore + projectedPoints, on the    *)
(* normal path (the floor included) and on the fallback path.              *)
(***************************************************************************)
C27_TotalIsScorePlusPoints ==
  variant \in {"page", "grouped"} =>
    JEq(call.out.projectedTotal, JAdd(JInt(currentTotal), call.out.projectedPoints))

\* the demo record carries what the engine and the signal rules of page.tsx
\* return for the event in snap
CarriesComputed(record) ==
  /\ JEq(record.pace, call.out.pace)
  /\ JEq(record.projectedTotal, call.out.projectedTotal)
  /\ JEq(record.confidence, call.out.confidence)
  /\ JEq(record.minutesRemaining, call.out.minutesRemaining)
  /\ record.blowoutRisk = game.blowoutRisk
  /\ record.gameTempo = game.gameTempo
  /\ record.overUnderEdge = game.overUnderEdge

(***************************************************************************)
(* C29: every DEMO_GAMES record carries the pace, projectedTotal,          *)
(* confidence and minutesRemaining that calculateRealProjection returns    *)
(* for its scores, clock and period, and the blowoutRisk, gameTempo and    *)
(* overUnderEdge the signal rules give (blowoutRisk 0 at a differential of *)
(* 15 or less).                                                            *)
(***************************************************************************)
C29_DemoRecordsComputed ==
  \A id \in DemoIds :
    (variant = "page" /\ snap = DemoSnapshot(id)) => CarriesComputed(DemoRecord(id))

(***************************************************************************)
(* C28: with both scores fixed, calculateRealProjection's projectedTotal   *)
(* never increases from one clock state to the next as the clock runs      *)
(* down, second by second, through both halves to 0:00 of the second.      *)
(***************************************************************************)
C28_NeverIncreases ==
  [][variant = "page" => JLe(call'.out.projectedTotal, call.out.projectedTotal)]_vars

====
